---- MODULE Spec2Model ----
(***************************************************************************)
(* Reading tracker: the book store, the session store, the services that   *)
(* write them (BookService, SessionService) and the statistics engine      *)
(* (StatsService, WrappedService) that reads them.                         *)
(*                                                                         *)
(* Dates are stored in SQLite as TEXT 'YYYY-MM-DD'.  A Python date object  *)
(* is modelled as a tuple <<year, month, day>>; a string is modelled as a  *)
(* sequence of one-character strings, so that formatting, parsing, prefix  *)
(* matching and text ordering are computed, not assumed.                   *)
(***************************************************************************)
EXTENDS Integers, Sequences, FiniteSets, TLC

VARIABLES
    books,      \* rows of table books
    sessions,   \* rows of table reading_sessions
    seq,        \* sqlite_sequence: last AUTOINCREMENT id handed out per table
    today,      \* date.today(), a date object
    response,   \* the last completed service call and its outcome
    calls       \* per worker thread: the service call in progress

vars == <<books, sessions, seq, today, response, calls>>

---------------------------------------------------------------------------
(* Bounds of the model *)

\* number of calendar days the clock can show (the window starts at Epoch)
NumDays == 6
\* number of session rows ever inserted
MaxSessions == 3
\* number of book rows ever inserted
MaxBooks == 2

\* first day of the window: the last day of a year
Epoch == <<2023, 12, 31>>

\* Python None / SQL NULL in a place that otherwise holds a string
NULL == <<"None">>
\* Python None in a place that otherwise holds a date object
NoDate == <<0, 0, 0>>
\* Python None in a place that otherwise holds a status word
NoStatus == "None"

---------------------------------------------------------------------------
(* Python / SQLite primitives on strings *)

DigitChars == <<"0", "1", "2", "3", "4", "5", "6", "7", "8", "9">>

\* str(n) for n >= 0
RECURSIVE IntToStr(_)
IntToStr(n) ==
    IF n < 10 THEN <<DigitChars[n + 1]>>
    ELSE Append(IntToStr(n \div 10), DigitChars[(n % 10) + 1])

\* n formatted in at least w digits, zero padded (%m, %d, %Y of strftime)
RECURSIVE ZeroPad(_, _)
ZeroPad(n, w) ==
    IF w <= 1 THEN IntToStr(n)
    ELSE IF Len(IntToStr(n)) >= w THEN IntToStr(n)
    ELSE <<"0">> \o ZeroPad(n, w - 1)

IsDigit(c) == \E i \in 1..10 : DigitChars[i] = c

DigitValue(c) == (CHOOSE i \in 1..10 : DigitChars[i] = c) - 1

\* int(s) for a string of digits
RECURSIVE StrToInt(_)
StrToInt(s) ==
    IF Len(s) = 0 THEN 0
    ELSE 10 * StrToInt(SubSeq(s, 1, Len(s) - 1)) + DigitValue(s[Len(s)])

\* s.startswith(p); also SQLite's  s LIKE 'p%'  for a pattern p of digits
StartsWith(s, p) ==
    /\ Len(p) <= Len(s)
    /\ \A i \in 1..Len(p) : s[i] = p[i]

CharRank(c) ==
    IF c = " " THEN 0
    ELSE IF c = "-" THEN 1
    ELSE IF IsDigit(c) THEN 2 + DigitValue(c)
    ELSE 20

\* s < t in SQLite's BINARY collation and in Python's str ordering
RECURSIVE StrLess(_, _)
StrLess(s, t) ==
    IF Len(t) = 0 THEN FALSE
    ELSE IF Len(s) = 0 THEN TRUE
    ELSE IF CharRank(s[1]) # CharRank(t[1]) THEN CharRank(s[1]) < CharRank(t[1])
    ELSE StrLess(Tail(s), Tail(t))

\* s.strip()
RECURSIVE LStrip(_)
LStrip(s) == IF Len(s) > 0 /\ s[1] = " " THEN LStrip(Tail(s)) ELSE s

RECURSIVE RStrip(_)
RStrip(s) ==
    IF Len(s) > 0 /\ s[Len(s)] = " " THEN RStrip(SubSeq(s, 1, Len(s) - 1)) ELSE s

Strip(s) == RStrip(LStrip(s))

---------------------------------------------------------------------------
(* datetime.date *)

IsLeap(y) == (y % 4 = 0) /\ ((y % 100 # 0) \/ (y % 400 = 0))

DaysInMonth(y, m) ==
    IF m = 2 THEN (IF IsLeap(y) THEN 29 ELSE 28)
    ELSE IF m \in {4, 6, 9, 11} THEN 30
    ELSE 31

RECURSIVE DaysBeforeMonth(_, _)
DaysBeforeMonth(y, m) ==
    IF m = 1 THEN 0 ELSE DaysBeforeMonth(y, m - 1) + DaysInMonth(y, m - 1)

DaysBeforeYear(y) ==
    LET p == y - 1 IN p * 365 + (p \div 4) - (p \div 100) + (p \div 400)

\* date.toordinal(): (a - b).days = ToOrdinal(a) - ToOrdinal(b)
ToOrdinal(dt) == DaysBeforeYear(dt[1]) + DaysBeforeMonth(dt[1], dt[2]) + dt[3]

\* dt + timedelta(days=1)
NextDay(dt) ==
    IF dt[3] < DaysInMonth(dt[1], dt[2]) THEN <<dt[1], dt[2], dt[3] + 1>>
    ELSE IF dt[2] < 12 THEN <<dt[1], dt[2] + 1, 1>>
    ELSE <<dt[1] + 1, 1, 1>>

\* dt - timedelta(days=1)
PrevDay(dt) ==
    IF dt[3] > 1 THEN <<dt[1], dt[2], dt[3] - 1>>
    ELSE IF dt[2] > 1 THEN <<dt[1], dt[2] - 1, DaysInMonth(dt[1], dt[2] - 1)>>
    ELSE <<dt[1] - 1, 12, 31>>

\* a < b on date objects
DateLess(a, b) ==
    \/ a[1] < b[1]
    \/ a[1] = b[1] /\ a[2] < b[2]
    \/ a[1] = b[1] /\ a[2] = b[2] /\ a[3] < b[3]

\* dt.strftime('%Y-%m-%d')
Strftime(dt) ==
    ZeroPad(dt[1], 4) \o <<"-">> \o ZeroPad(dt[2], 2) \o <<"-">> \o ZeroPad(dt[3], 2)

\* s is a date as Strftime writes it: YYYY-MM-DD, zero padded
WellFormedDate(s) ==
    /\ Len(s) = 10
    /\ s[5] = "-" /\ s[8] = "-"
    /\ \A i \in {1, 2, 3, 4, 6, 7, 9, 10} : IsDigit(s[i])
    /\ LET y == StrToInt(SubSeq(s, 1, 4))
           m == StrToInt(SubSeq(s, 6, 7))
           d == StrToInt(SubSeq(s, 9, 10))
       IN  y >= 1 /\ m \in 1..12 /\ d >= 1 /\ d <= DaysInMonth(y, m)

\* the position of the second "-" of a string that matches %Y-%m-%d
SecondDash(s) == IF s[7] = "-" THEN 7 ELSE 8

\* %m matches 1[0-2], 0[1-9] or [1-9]
IsMonthField(f) ==
    \/ Len(f) = 1 /\ IsDigit(f[1]) /\ f[1] # "0"
    \/ Len(f) = 2 /\ IsDigit(f[1]) /\ IsDigit(f[2]) /\ StrToInt(f) \in 1..12

\* %d matches 3[01], [12]\d, 0[1-9], [1-9] or a space and [1-9]
IsDayField(f) ==
    \/ Len(f) = 1 /\ IsDigit(f[1]) /\ f[1] # "0"
    \/ Len(f) = 2 /\ IsDigit(f[1]) /\ IsDigit(f[2]) /\ StrToInt(f) \in 1..31
    \/ Len(f) = 2 /\ f[1] = " " /\ IsDigit(f[2]) /\ f[2] # "0"

\* the day of the month written in a field %d matched
DayOfField(f) == IF f[1] = " " THEN StrToInt(Tail(f)) ELSE StrToInt(f)

\* datetime.strptime(s, '%Y-%m-%d'), for the strings it does not refuse
Strptime(s) ==
    <<StrToInt(SubSeq(s, 1, 4)), StrToInt(SubSeq(s, 6, SecondDash(s) - 1)),
      DayOfField(SubSeq(s, SecondDash(s) + 1, Len(s)))>>

\* datetime.strptime(s, '%Y-%m-%d') raises ValueError: s does not match the
\* format, or the fields are no day of the calendar
StrptimeRaises(s) ==
    \/ Len(s) < 8
    \/ \E i \in 1..4 : ~IsDigit(s[i])
    \/ s[5] # "-"
    \/ s[SecondDash(s)] # "-"
    \/ ~IsMonthField(SubSeq(s, 6, SecondDash(s) - 1))
    \/ ~IsDayField(SubSeq(s, SecondDash(s) + 1, Len(s)))
    \/ Strptime(s)[1] < 1
    \/ Strptime(s)[3] > DaysInMonth(Strptime(s)[1], Strptime(s)[2])

\* the days of the window, Epoch first
RECURSIVE DayAt(_)
DayAt(i) == IF i = 1 THEN Epoch ELSE NextDay(DayAt(i - 1))

Days == {DayAt(i) : i \in 1..NumDays}

LastDay == DayAt(NumDays)

---------------------------------------------------------------------------
(* Generic helpers on sequences (Python lists) and dicts                   *)
(* A dict is a sequence of entries [key, value] in insertion order.        *)

RECURSIVE SeqSum(_)
SeqSum(q) == IF Len(q) = 0 THEN 0 ELSE Head(q) + SeqSum(Tail(q))

Range(q) == {q[i] : i \in 1..Len(q)}

\* the value of a set of one value. A local variable x that is assigned
\* once and read many times is written Only({ ... x ... : x \in {value}})
Only(S) == CHOOSE r \in S : TRUE

DictKeys(d) == {d[i].key : i \in 1..Len(d)}

DictHas(d, k) == \E i \in 1..Len(d) : d[i].key = k

DictGet(d, k) == d[CHOOSE i \in 1..Len(d) : d[i].key = k].value

DictValues(d) == [i \in 1..Len(d) |-> d[i].value]

\* d[k] = v, keeping the position of an existing key
DictSet(d, k, v) ==
    IF DictHas(d, k)
    THEN [i \in 1..Len(d) |-> IF d[i].key = k THEN [key |-> k, value |-> v] ELSE d[i]]
    ELSE Append(d, [key |-> k, value |-> v])

\* mutant of MaxIndexBy: the last of the greatest values
MaxIndexByLast(vals) ==
    CHOOSE i \in 1..Len(vals) :
        /\ \A j \in 1..Len(vals) : vals[j] <= vals[i]
        /\ \A j \in (i + 1)..Len(vals) : vals[j] < vals[i]

\* max(keys, key=...) of Python: the first key whose value is maximal
MaxIndexBy(vals) ==
    CHOOSE i \in 1..Len(vals) :
        /\ \A j \in 1..Len(vals) : vals[j] <= vals[i]
        /\ \A j \in 1..(i - 1) : vals[j] < vals[i]

---------------------------------------------------------------------------
(* core/database.py: the connection and the schema *)

\* get_connection opens the file with sqlite3.connect and issues no
\* PRAGMA foreign_keys = ON: SQLite then parses the FOREIGN KEY clause of
\* reading_sessions and does not enforce it (no check on INSERT, no cascade).
ForeignKeysEnforced == FALSE

BookRow(id, title, author, start_date, end_date, status) ==
    [id |-> id, title |-> title, author |-> author, start_date |-> start_date,
     end_date |-> end_date, status |-> status]

SessionRow(id, book_id, date, minutes_read) ==
    [id |-> id, book_id |-> book_id, date |-> date, minutes_read |-> minutes_read]

---------------------------------------------------------------------------
(* repositories/BookRepository.py *)

\* get_by_id: "row is None" is ~BookExists; otherwise the row
BookExists(book_id) == \E b \in books : b.id = book_id

BookGetById(book_id) == CHOOSE b \in books : b.id = book_id

\* has_sessions: SELECT COUNT(*) ... WHERE book_id = ?  > 0
HasSessions(book_id) == \E s \in sessions : s.book_id = book_id

\* update: UPDATE books SET <the keys of data> WHERE id = ?
\* data.keys is the set of keys of the dict, the other fields their values
BookUpdated(b, data) ==
    [b EXCEPT !.title = IF "title" \in data.keys THEN data.title ELSE @,
              !.author = IF "author" \in data.keys THEN data.author ELSE @,
              !.status = IF "status" \in data.keys THEN data.status ELSE @,
              !.end_date = IF "end_date" \in data.keys THEN data.end_date ELSE @]

BookRepoUpdate(rows, book_id, data) ==
    IF data.keys = {} THEN rows
    ELSE {IF b.id = book_id THEN BookUpdated(b, data) ELSE b : b \in rows}

\* delete: DELETE FROM books WHERE id = ?
BookRepoDelete(rows, book_id) == {b \in rows : b.id # book_id}

\* rows of reading_sessions left after a book row is deleted
SessionsAfterBookDelete(rows, book_id) ==
    IF ForeignKeysEnforced THEN {s \in rows : s.book_id # book_id} ELSE rows

\* get_all: SELECT ... FROM books (rowid order)
RECURSIVE OrderById(_)
OrderById(rows) ==
    IF rows = {} THEN <<>>
    ELSE LET r == CHOOSE x \in rows : \A y \in rows : x.id <= y.id
         IN  <<r>> \o OrderById(rows \ {r})

BookGetAll == OrderById(books)

---------------------------------------------------------------------------
(* repositories/SessionRepository.py *)

\* ORDER BY date DESC; rows of one date come out in rowid order
RECURSIVE OrderByDateDesc(_)
OrderByDateDesc(rows) ==
    IF rows = {} THEN <<>>
    ELSE LET r == CHOOSE x \in rows : \A y \in rows :
                      \/ StrLess(y.date, x.date)
                      \/ y.date = x.date /\ x.id <= y.id
         IN  <<r>> \o OrderByDateDesc(rows \ {r})

\* ORDER BY date (ascending); rows of one date come out in rowid order:
\* a row stands after the rows that come before it
ComesBefore(y, x) ==
    IF y.date = x.date THEN y.id < x.id ELSE StrLess(y.date, x.date)

RankedRows(selected, before) ==
    [k \in 1..Cardinality(selected) |-> CHOOSE x \in selected : before[x] = k - 1]

OrderByDateAsc(rows) ==
    Only({RankedRows(selected,
                     [x \in selected |->
                         Cardinality({y \in selected : ComesBefore(y, x)})])
          : selected \in {rows}})

SessionGetAllOf(rows) == OrderByDateDesc(rows)

SessionGetAll == SessionGetAllOf(sessions)

SessionExists(session_id) == \E s \in sessions : s.id = session_id

\* get_by_year: WHERE date LIKE '<year>%'
SessionGetByYearOf(rows, year) ==
    OrderByDateDesc({s \in rows : StartsWith(s.date, IntToStr(year))})

SessionGetByYear(year) == SessionGetByYearOf(sessions, year)

\* get_by_date_range: WHERE date >= ? AND date <= ?  (text comparison)
SessionGetByDateRange(start_date, end_date) ==
    Only({OrderByDateAsc({s \in sessions : ~StrLess(s.date, lo) /\ ~StrLess(hi, s.date)})
          : lo \in {Strftime(start_date)}, hi \in {Strftime(end_date)}})

\* get_all_sessions_with_books: INNER JOIN books ON rs.book_id = b.id
JoinRow(s, b) ==
    [id |-> s.id, book_id |-> s.book_id, date |-> s.date,
     minutes_read |-> s.minutes_read, title |-> b.title, author |-> b.author]

SessionsWithBooksOf(srows, brows) ==
    LET joined == {s \in srows : \E b \in brows : b.id = s.book_id}
        ordered == OrderByDateDesc(joined)
    IN  [i \in 1..Len(ordered) |->
            JoinRow(ordered[i], CHOOSE b \in brows : b.id = ordered[i].book_id)]

SessionsWithBooks == SessionsWithBooksOf(sessions, books)

---------------------------------------------------------------------------
(* HTTP outcomes: the status of the HTTPException a service raises, or the *)
(* status_code of the route on success                                     *)

Ok == 200
Created == 201
NoContent == 204
BadRequest == 400
NotFound == 404
\* response before any call has completed
NoResponse == 0
\* an sqlite3.Error that no handler catches
ServerError == 500

Idle == [op |-> "idle"]

---------------------------------------------------------------------------
(* services/BookService.py *)

IsBlank(s) == Len(Strip(s)) = 0

\* create_book: the status it ends with
CreateBookStatus(title, start_date) ==
    IF title = NULL \/ IsBlank(title) THEN BadRequest
    ELSE IF DateLess(today, start_date) THEN BadRequest
    ELSE Created

CreateBook(title, author, start_date) ==
    /\ seq.books < MaxBooks
    /\ response' = CreateBookStatus(title, start_date)
    /\ IF CreateBookStatus(title, start_date) = Created
       THEN /\ books' = books \cup
                   {BookRow(seq.books + 1, Strip(title),
                            IF author = NULL \/ IsBlank(author) THEN NULL ELSE author,
                            Strftime(start_date), NULL, "reading")}
            /\ seq' = [seq EXCEPT !.books = @ + 1]
       ELSE UNCHANGED <<books, seq>>
    /\ UNCHANGED <<sessions, today, calls>>

\* update_book: the status it ends with
UpdateBookStatus(book_id, title, author, end_date, status) ==
    IF ~BookExists(book_id) THEN NotFound
    ELSE IF title # NULL /\ IsBlank(title) THEN BadRequest
    ELSE IF status # NoStatus /\ status \notin {"reading", "finished"} THEN BadRequest
    ELSE IF end_date # NoDate
            /\ DateLess(end_date, Strptime(BookGetById(book_id).start_date))
         THEN BadRequest
    ELSE Ok

\* update_book: the dict update_data it builds
UpdateData(title, author, end_date, status) ==
    [keys |-> {k \in {"title"} : title # NULL}
              \cup {k \in {"author"} : author # NULL}
              \cup {k \in {"status"} : status # NoStatus}
              \cup {k \in {"end_date"} : end_date # NoDate},
     title |-> IF title # NULL THEN Strip(title) ELSE NULL,
     author |-> IF author # NULL /\ ~IsBlank(author) THEN Strip(author) ELSE NULL,
     status |-> status,
     end_date |-> IF end_date # NoDate THEN Strftime(end_date) ELSE NULL]

UpdateBook(book_id, title, author, end_date, status) ==
    /\ response' = UpdateBookStatus(book_id, title, author, end_date, status)
    /\ books' = IF UpdateBookStatus(book_id, title, author, end_date, status) = Ok
                THEN BookRepoUpdate(books, book_id,
                                    UpdateData(title, author, end_date, status))
                ELSE books
    /\ UNCHANGED <<sessions, seq, today, calls>>

\* mutant of MarkAsFinishedStatus: the end_date < start_date test is left out
MarkAsFinishedNoDateCheck(book_id, end_date) ==
    IF ~BookExists(book_id) THEN NotFound ELSE Ok

\* mark_as_finished: the status it ends with
MarkAsFinishedStatus(book_id, end_date) ==
    IF ~BookExists(book_id) THEN NotFound
    ELSE IF DateLess(end_date, Strptime(BookGetById(book_id).start_date)) THEN BadRequest
    ELSE Ok

MarkAsFinished(book_id, end_date) ==
    /\ response' = MarkAsFinishedStatus(book_id, end_date)
    /\ books' = IF MarkAsFinishedStatus(book_id, end_date) = Ok
                THEN BookRepoUpdate(books, book_id,
                         [keys |-> {"status", "end_date"}, status |-> "finished",
                          end_date |-> Strftime(end_date)])
                ELSE books
    /\ UNCHANGED <<sessions, seq, today, calls>>

\* mutant of DeleteBookStatus: has_sessions is not asked
DeleteBookStatusNoSessionCheck(book_id) ==
    IF ~BookExists(book_id) THEN NotFound ELSE NoContent

\* delete_book: the status it ends with
DeleteBookStatus(book_id) ==
    IF ~BookExists(book_id) THEN NotFound
    ELSE IF HasSessions(book_id) THEN BadRequest
    ELSE NoContent

DeleteBook(book_id) ==
    /\ response' = DeleteBookStatus(book_id)
    /\ IF DeleteBookStatus(book_id) = NoContent
       THEN /\ books' = BookRepoDelete(books, book_id)
            /\ sessions' = SessionsAfterBookDelete(sessions, book_id)
       ELSE UNCHANGED <<books, sessions>>
    /\ UNCHANGED <<seq, today, calls>>

---------------------------------------------------------------------------
(* services/SessionService.py *)

\* mutant of ValidateSessionData: minutes_read < 0 instead of <= 0
ValidateSessionDataAllowingZero(book_id, session_date, minutes_read) ==
    IF ~BookExists(book_id) THEN NotFound
    ELSE IF minutes_read < 0 THEN BadRequest
    ELSE IF DateLess(today, session_date) THEN BadRequest
    ELSE Ok

\* validate_session_data: the status it raises, Ok when it raises nothing
ValidateSessionData(book_id, session_date, minutes_read) ==
    IF ~BookExists(book_id) THEN NotFound
    ELSE IF minutes_read <= 0 THEN BadRequest
    ELSE IF DateLess(today, session_date) THEN BadRequest
    ELSE Ok

CreateSession(book_id, session_date, minutes_read) ==
    /\ seq.sessions < MaxSessions
    /\ IF ValidateSessionData(book_id, session_date, minutes_read) = Ok
       THEN /\ sessions' = sessions \cup
                   {SessionRow(seq.sessions + 1, book_id, Strftime(session_date),
                               minutes_read)}
            /\ seq' = [seq EXCEPT !.sessions = @ + 1]
            /\ response' = Created
       ELSE /\ response' = ValidateSessionData(book_id, session_date, minutes_read)
            /\ UNCHANGED <<sessions, seq>>
    /\ UNCHANGED <<books, today, calls>>

DeleteSession(session_id) ==
    /\ IF SessionExists(session_id)
       THEN /\ sessions' = {s \in sessions : s.id # session_id}
            /\ response' = NoContent
       ELSE /\ response' = NotFound
            /\ UNCHANGED sessions
    /\ UNCHANGED <<books, seq, today, calls>>

---------------------------------------------------------------------------
(* The clock: date.today() moves to the next day *)

Tick ==
    /\ today # LastDay
    /\ today' = NextDay(today)
    /\ UNCHANGED <<books, sessions, seq, response, calls>>

---------------------------------------------------------------------------
(* services/StatsService.py                                                *)
(* An Optional[int] year is <<>> for None and <<y>> for the integer y; an  *)
(* Optional result is <<>> for None and <<v>> for the value v.             *)

NoYear == <<>>

\* mutant of DictAdd: d[k] = v, the earlier minutes of the key are lost
DictOverwrite(d, k, v) == DictSet(d, k, v)

\* defaultdict(int): d[k] += v
DictAdd(d, k, v) == DictSet(d, k, (IF DictHas(d, k) THEN DictGet(d, k) ELSE 0) + v)

MinutesOf(q) == [i \in 1..Len(q) |-> q[i].minutes_read]

\* the list a year-filtered statistic iterates over
SessionsFor(year) == IF year # NoYear THEN SessionGetByYear(year[1]) ELSE SessionGetAll

get_total_time_read(year) == SeqSum(MinutesOf(SessionsFor(year)))

\* mutant of DailyTotals: every session makes an entry of its own
RECURSIVE DailyTotalsPerSession(_, _)
DailyTotalsPerSession(q, daily_totals) ==
    IF Len(q) = 0 THEN daily_totals
    ELSE DailyTotalsPerSession(Tail(q),
             Append(daily_totals, [key |-> Head(q).date, value |-> Head(q).minutes_read]))

RECURSIVE DailyTotals(_, _)
DailyTotals(q, daily_totals) ==
    IF Len(q) = 0 THEN daily_totals
    ELSE DailyTotals(Tail(q), DictAdd(daily_totals, Head(q).date, Head(q).minutes_read))

get_daily_stats(year) == DailyTotals(SessionsFor(year), <<>>)

\* mutant of InYearFilter: every session passes
InYearFilterPassingAll(session_date, year) == TRUE


\* the year filter of the loops over get_all_sessions_with_books
InYearFilter(session_date, year) ==
    year = NoYear \/ StartsWith(session_date, IntToStr(year[1]))

RECURSIVE BookStats(_, _, _)
BookStats(q, year, book_stats) ==
    IF Len(q) = 0 THEN book_stats
    ELSE IF ~InYearFilter(Head(q).date, year) THEN BookStats(Tail(q), year, book_stats)
    ELSE LET k == IntToStr(Head(q).book_id)
             before == IF DictHas(book_stats, k)
                       THEN DictGet(book_stats, k).total_minutes ELSE 0
         IN  BookStats(Tail(q), year,
                 DictSet(book_stats, k,
                     [title |-> Head(q).title,
                      author |-> IF Head(q).author = NULL THEN <<>> ELSE Head(q).author,
                      total_minutes |-> before + Head(q).minutes_read]))

get_time_by_book(year) == BookStats(SessionsWithBooks, year, <<>>)

BookTotals(time_by_book) ==
    [i \in 1..Len(time_by_book) |-> time_by_book[i].value.total_minutes]

\* mutant of get_most_read_book: the last of the books with the most minutes
MostReadBookLastOfMaximum(year) ==
    LET time_by_book == get_time_by_book(year) IN
    IF Len(time_by_book) = 0 THEN <<>>
    ELSE LET e == time_by_book[MaxIndexByLast(BookTotals(time_by_book))]
         IN  <<[book_id |-> StrToInt(e.key), title |-> e.value.title,
                author |-> e.value.author, total_minutes |-> e.value.total_minutes]>>


get_most_read_book(year) ==
    LET time_by_book == get_time_by_book(year) IN
    IF Len(time_by_book) = 0 THEN <<>>
    ELSE LET e == time_by_book[MaxIndexBy(BookTotals(time_by_book))]
         IN  <<[book_id |-> StrToInt(e.key), title |-> e.value.title,
                author |-> e.value.author, total_minutes |-> e.value.total_minutes]>>

get_books_finished_count ==
    Cardinality({b \in books : b.status = "finished"})

\* int(end_date.split('-')[0])
RECURSIVE UpToDash(_)
UpToDash(s) ==
    IF Len(s) = 0 \/ s[1] = "-" THEN <<>> ELSE <<s[1]>> \o UpToDash(Tail(s))

RECURSIVE YearCounts(_, _)
YearCounts(q, year_counts) ==
    IF Len(q) = 0 THEN year_counts
    ELSE IF Head(q).status = "finished" /\ Head(q).end_date # NULL
         THEN YearCounts(Tail(q),
                  DictAdd(year_counts, StrToInt(UpToDash(Head(q).end_date)), 1))
         ELSE YearCounts(Tail(q), year_counts)

get_books_finished_by_year == YearCounts(BookGetAll, <<>>)

get_books_read_in_year(y) ==
    LET q == SessionsWithBooks IN
    Cardinality({q[i].book_id : i \in {j \in 1..Len(q) : StartsWith(q[j].date, IntToStr(y))}})

\* max(a, b)
Max2(a, b) == IF a >= b THEN a ELSE b

\* the set unique_dates of date objects both streak functions build
UniqueDates(q) == {Strptime(q[i].date) : i \in 1..Len(q)}

\* mutant of MaxDate: min(unique_dates) is taken for the most recent date
MinDate(dates) == CHOOSE d \in dates : \A e \in dates : ~DateLess(e, d)

MaxDate(dates) == CHOOSE d \in dates : \A e \in dates : ~DateLess(d, e)

\* while current_date in unique_dates: streak += 1; current_date -= 1 day
RECURSIVE CountBack(_, _)
CountBack(current_date, unique_dates) ==
    IF current_date \in unique_dates
    THEN 1 + CountBack(PrevDay(current_date), unique_dates)
    ELSE 0

\* mutant of StreakBroken: a session of yesterday already breaks the streak
StreakBrokenOffByOne(days_since_last_session) == days_since_last_session >= 1

\* mutant of StreakBroken: the streak lasts through a second day without a
\* session
StreakBrokenAfterTwoDays(days_since_last_session) == days_since_last_session > 2


\* today - most_recent_date > 1 day: the streak is broken
StreakBroken(days_since_last_session) == days_since_last_session > 1

\* calculate_current_streak on the rows q that get_all returned
CurrentStreakOf(q) ==
    LET unique_dates == UniqueDates(q)
    IN  IF Len(q) = 0 THEN 0
        ELSE IF unique_dates = {} THEN 0
        ELSE LET most_recent_date == MaxDate(unique_dates)
                 days_since_last_session == ToOrdinal(today) - ToOrdinal(most_recent_date)
             IN  IF StreakBroken(days_since_last_session) THEN 0
                 ELSE CountBack(most_recent_date, unique_dates)

calculate_current_streak == CurrentStreakOf(SessionGetAll)

\* mutant of SortedDates: sorted(unique_dates, reverse=True)
RECURSIVE SortedDatesDescending(_)
SortedDatesDescending(dates) ==
    IF dates = {} THEN <<>>
    ELSE LET d == CHOOSE x \in dates : \A y \in dates : ~DateLess(x, y)
         IN  <<d>> \o SortedDatesDescending(dates \ {d})

\* sorted(unique_dates)
RECURSIVE SortedDates(_)
SortedDates(dates) ==
    IF dates = {} THEN <<>>
    ELSE LET d == CHOOSE x \in dates : \A y \in dates : ~DateLess(y, x)
         IN  <<d>> \o SortedDates(dates \ {d})

\* mutant of StreakScan: max_streak is updated only when a gap ends a run
RECURSIVE StreakScanNoMax(_, _, _, _)
StreakScanNoMax(sorted_dates, i, max_streak, current_streak) ==
    IF i > Len(sorted_dates) THEN max_streak
    ELSE IF ToOrdinal(sorted_dates[i]) - ToOrdinal(sorted_dates[i - 1]) = 1
         THEN StreakScanNoMax(sorted_dates, i + 1, max_streak, current_streak + 1)
         ELSE StreakScanNoMax(sorted_dates, i + 1, Max2(max_streak, current_streak), 1)

\* mutant of StreakScan: the scan stops at the first gap
RECURSIVE StreakScanFirstRun(_, _, _, _)
StreakScanFirstRun(sorted_dates, i, max_streak, current_streak) ==
    IF i > Len(sorted_dates) THEN max_streak
    ELSE IF ToOrdinal(sorted_dates[i]) - ToOrdinal(sorted_dates[i - 1]) = 1
         THEN StreakScanFirstRun(sorted_dates, i + 1,
                                 Max2(max_streak, current_streak + 1), current_streak + 1)
         ELSE max_streak


\* the loop for i in range(1, len(sorted_dates)) of both longest-streak scans
RECURSIVE StreakScan(_, _, _, _)
StreakScan(sorted_dates, i, max_streak, current_streak) ==
    IF i > Len(sorted_dates) THEN max_streak
    ELSE IF ToOrdinal(sorted_dates[i]) - ToOrdinal(sorted_dates[i - 1]) = 1
         THEN StreakScan(sorted_dates, i + 1,
                         Max2(max_streak, current_streak + 1), current_streak + 1)
         ELSE StreakScan(sorted_dates, i + 1, max_streak, 1)

\* calculate_max_streak on the rows q that get_all returned
MaxStreakOf(q) ==
    LET unique_dates == UniqueDates(q)
    IN  IF Len(q) = 0 THEN 0
        ELSE IF unique_dates = {} THEN 0
        ELSE StreakScan(SortedDates(unique_dates), 2, 1, 1)

calculate_max_streak == MaxStreakOf(SessionGetAll)

\* A call either returns a value or raises an exception that ends it
Return(v) == [exc |-> "None", value |-> <<v>>]
Raise(e) == [exc |-> e, value |-> <<>>]

\* a loop that parses the date of every row raises at the first row whose
\* date strptime refuses
AnyStrptimeRaises(q) == \E i \in 1..Len(q) : StrptimeRaises(q[i].date)

CurrentStreakCall(q) ==
    IF AnyStrptimeRaises(q) THEN Raise("ValueError") ELSE Return(CurrentStreakOf(q))

MaxStreakCall(q) ==
    IF AnyStrptimeRaises(q) THEN Raise("ValueError") ELSE Return(MaxStreakOf(q))

RECURSIVE AuthorTotals(_, _, _)
AuthorTotals(q, year, author_totals) ==
    IF Len(q) = 0 THEN author_totals
    ELSE IF ~InYearFilter(Head(q).date, year) THEN AuthorTotals(Tail(q), year, author_totals)
    ELSE IF Head(q).author # NULL /\ ~IsBlank(Head(q).author)
         THEN AuthorTotals(Tail(q), year,
                  DictAdd(author_totals, Head(q).author, Head(q).minutes_read))
         ELSE AuthorTotals(Tail(q), year, author_totals)

get_most_read_author(year) ==
    LET q == SessionsWithBooks
        author_totals == AuthorTotals(q, year, <<>>)
    IN  IF Len(q) = 0 THEN <<>>
        ELSE IF Len(author_totals) = 0 THEN <<>>
        ELSE <<author_totals[MaxIndexBy(DictValues(author_totals))].key>>

---------------------------------------------------------------------------
(* services/wrapped_service.py *)

\* mutant of WrappedSessions: the sessions from 2 January on
WrappedSessionsFromSecond(y) == SessionGetByDateRange(<<y, 1, 2>>, <<y, 12, 31>>)


\* get_wrapped_data: the sessions of the year, 1 January to 31 December
WrappedSessions(y) == SessionGetByDateRange(<<y, 1, 1>>, <<y, 12, 31>>)

_calculate_longest_streak(q) ==
    IF Len(q) = 0 THEN 0
    ELSE LET dates == SortedDates(UniqueDates(q))
         IN  IF Len(dates) = 0 THEN 0 ELSE StreakScan(dates, 2, 1, 1)

LongestStreakCall(q) ==
    IF AnyStrptimeRaises(q) THEN Raise("ValueError")
    ELSE Return(_calculate_longest_streak(q))

\* calculate_general_stats(sessions)["longest_streak"]
GeneralStatsLongestStreak(q) ==
    IF Len(q) = 0 THEN 0 ELSE _calculate_longest_streak(q)

---------------------------------------------------------------------------
(* Requests served concurrently. The routes are plain functions, which the *)
(* server runs in a thread pool; the threads share one sqlite3 connection  *)
(* and every repository call is one statement, committed on its own. A     *)
(* request in flight is calls[t]: the handler, its arguments, the          *)
(* statement it executes next and its local variables.                     *)

Free(t) == calls[t].op \in {"idle", "returned"}

InFlight(op) == Cardinality({t \in DOMAIN calls : calls[t].op = op})

\* create_session up to validate_session_data, which reads the book
CreateSessionValidate(t, book_id, session_date, minutes_read) ==
    /\ Free(t)
    /\ seq.sessions + InFlight("create_session") < MaxSessions
    /\ IF ValidateSessionData(book_id, session_date, minutes_read) = Ok
       THEN /\ calls' = [calls EXCEPT ![t] =
                            [op |-> "create_session", book_id |-> book_id,
                             date |-> session_date, minutes_read |-> minutes_read]]
            /\ UNCHANGED response
       ELSE /\ response' = ValidateSessionData(book_id, session_date, minutes_read)
            /\ calls' = [calls EXCEPT ![t] = Idle]
    /\ UNCHANGED <<books, sessions, seq, today>>

\* create_session from self._session_repo.create(session): the INSERT
CreateSessionInsert(t) ==
    /\ calls[t].op = "create_session"
    /\ IF ForeignKeysEnforced /\ ~BookExists(calls[t].book_id)
       THEN /\ response' = ServerError
            /\ UNCHANGED <<sessions, seq>>
       ELSE /\ sessions' = sessions \cup
                   {SessionRow(seq.sessions + 1, calls[t].book_id,
                               Strftime(calls[t].date), calls[t].minutes_read)}
            /\ seq' = [seq EXCEPT !.sessions = @ + 1]
            /\ response' = Created
    /\ calls' = [calls EXCEPT ![t] = Idle]
    /\ UNCHANGED <<books, today>>

\* delete_book up to self.get_book(book_id)
DeleteBookGet(t, book_id) ==
    /\ Free(t)
    /\ IF BookExists(book_id)
       THEN /\ calls' = [calls EXCEPT ![t] =
                            [op |-> "delete_book", pc |-> "has_sessions",
                             book_id |-> book_id]]
            /\ UNCHANGED response
       ELSE /\ response' = NotFound
            /\ calls' = [calls EXCEPT ![t] = Idle]
    /\ UNCHANGED <<books, sessions, seq, today>>

\* delete_book: self._book_repo.has_sessions(book_id)
DeleteBookHasSessions(t) ==
    /\ calls[t].op = "delete_book"
    /\ calls[t].pc = "has_sessions"
    /\ IF HasSessions(calls[t].book_id)
       THEN /\ response' = BadRequest
            /\ calls' = [calls EXCEPT ![t] = Idle]
       ELSE /\ calls' = [calls EXCEPT ![t].pc = "delete"]
            /\ UNCHANGED response
    /\ UNCHANGED <<books, sessions, seq, today>>

\* delete_book: self._book_repo.delete(book_id)
DeleteBookDelete(t) ==
    /\ calls[t].op = "delete_book"
    /\ calls[t].pc = "delete"
    /\ books' = BookRepoDelete(books, calls[t].book_id)
    /\ sessions' = SessionsAfterBookDelete(sessions, calls[t].book_id)
    /\ response' = NoContent
    /\ calls' = [calls EXCEPT ![t] = Idle]
    /\ UNCHANGED <<seq, today>>

\* the keys of the dict literal of get_summary_stats, in evaluation order
SummaryKeys ==
    <<"total_minutes_read", "books_finished", "books_read_in_year", "daily_stats",
      "book_stats", "most_read_book", "most_read_author", "books_finished_by_year",
      "current_streak", "max_streak">>

\* get_summary_stats: the value of one key, a query of its own
SummaryValue(k, year) ==
    CASE k = "total_minutes_read" -> get_total_time_read(year)
      [] k = "books_finished" -> get_books_finished_count
      [] k = "books_read_in_year" ->
             IF year # NoYear /\ year[1] # 0
             THEN <<get_books_read_in_year(year[1])>> ELSE <<>>
      [] k = "daily_stats" -> get_daily_stats(year)
      [] k = "book_stats" -> get_time_by_book(year)
      [] k = "most_read_book" -> get_most_read_book(year)
      [] k = "most_read_author" -> get_most_read_author(year)
      [] k = "books_finished_by_year" -> get_books_finished_by_year
      [] k = "current_streak" -> calculate_current_streak
      [] k = "max_streak" -> calculate_max_streak

GetSummaryStatsCall(t, year) ==
    /\ Free(t)
    /\ calls' = [calls EXCEPT ![t] =
                    [op |-> "get_summary_stats", year |-> year, pc |-> 1,
                     summary |-> <<>>]]
    /\ UNCHANGED <<books, sessions, seq, today, response>>

\* get_summary_stats: the next key of the dict literal is evaluated; after
\* the last one the dict is returned
GetSummaryStatsStep(t) ==
    /\ calls[t].op = "get_summary_stats"
    /\ LET c == calls[t]
           k == SummaryKeys[c.pc]
           summary == DictSet(c.summary, k, SummaryValue(k, c.year))
       IN  IF c.pc = Len(SummaryKeys)
           THEN /\ calls' = [calls EXCEPT ![t] =
                                [op |-> "returned", handler |-> "get_summary_stats",
                                 result |-> summary]]
                /\ response' = Ok
           ELSE /\ calls' = [calls EXCEPT ![t] =
                                [c EXCEPT !.pc = @ + 1, !.summary = summary]]
                /\ UNCHANGED response
    /\ UNCHANGED <<books, sessions, seq, today>>

\* the local variables of get_wrapped_stats that hold the answer of a query,
\* in the order of the queries
WrappedQueries ==
    <<"total_minutes", "books_read", "most_read_book", "most_read_author",
      "daily_stats", "book_stats", "books_finished_by_year", "sessions",
      "current_streak">>

\* mutant of WrappedValue: the streak is counted over the sessions of the
\* year
WrappedValueStreakOfYear(k, year) ==
    CASE k = "total_minutes" -> get_total_time_read(<<year>>)
      [] k = "books_read" -> get_books_read_in_year(year)
      [] k = "most_read_book" -> get_most_read_book(<<year>>)
      [] k = "most_read_author" -> get_most_read_author(<<year>>)
      [] k = "daily_stats" -> get_daily_stats(<<year>>)
      [] k = "book_stats" -> get_time_by_book(<<year>>)
      [] k = "books_finished_by_year" -> get_books_finished_by_year
      [] k = "sessions" -> SessionGetByYear(year)
      [] k = "current_streak" -> CurrentStreakOf(SessionGetByYear(year))

WrappedValue(k, year) ==
    CASE k = "total_minutes" -> get_total_time_read(<<year>>)
      [] k = "books_read" -> get_books_read_in_year(year)
      [] k = "most_read_book" -> get_most_read_book(<<year>>)
      [] k = "most_read_author" -> get_most_read_author(<<year>>)
      [] k = "daily_stats" -> get_daily_stats(<<year>>)
      [] k = "book_stats" -> get_time_by_book(<<year>>)
      [] k = "books_finished_by_year" -> get_books_finished_by_year
      [] k = "sessions" -> SessionGetByYear(year)
      [] k = "current_streak" -> calculate_current_streak

\* round(n / d, 1) for d > 0, in tenths: the nearest tenth, a tie going to
\* the even one (the ties of minutes that are multiples of five, and of
\* averages over fewer than twenty days, are exact binary fractions)
RoundTenths(n, d) ==
    LET q == (10 * n) \div d
        r == (10 * n) % d
    IN  IF 2 * r > d \/ (2 * r = d /\ q % 2 = 1) THEN q + 1 ELSE q

\* n / d of Python, rounded to one decimal and kept in tenths; a zero
\* divisor raises
RoundedQuotient(n, d) ==
    IF d = 0 THEN Raise("ZeroDivisionError") ELSE Return(RoundTenths(n, d))

\* round(total_minutes / days_read, 1) if days_read > 0 else 0
AverageMinutesPerDay(total_minutes, days_read) ==
    IF days_read > 0 THEN RoundedQuotient(total_minutes, days_read) ELSE Return(0)

\* max(..., default=0)
RECURSIVE SeqMax(_)
SeqMax(q) == IF Len(q) = 0 THEN 0 ELSE Max2(Head(q), SeqMax(Tail(q)))

\* mutant of SortedBooks: equal totals come out in reverse order
RECURSIVE SortedBooksReversingTies(_)
SortedBooksReversingTies(items) ==
    IF Len(items) = 0 THEN <<>>
    ELSE LET i == MaxIndexByLast(BookTotals(items))
         IN  <<items[i]>> \o
             SortedBooksReversingTies(SubSeq(items, 1, i - 1)
                                      \o SubSeq(items, i + 1, Len(items)))


\* sorted(book_stats.items(), key=total_minutes, reverse=True): books of
\* equal time keep the order of the dict
RECURSIVE SortedBooks(_)
SortedBooks(items) ==
    IF Len(items) = 0 THEN <<>>
    ELSE LET i == MaxIndexBy(BookTotals(items))
         IN  <<items[i]>> \o
             SortedBooks(SubSeq(items, 1, i - 1) \o SubSeq(items, i + 1, Len(items)))

\* [:5]
TopCount == 5

TopBooks(book_stats) ==
    LET sorted_books == SubSeq(SortedBooks(book_stats), 1,
                               IF Len(book_stats) < TopCount
                               THEN Len(book_stats) ELSE TopCount)
    IN  [i \in 1..Len(sorted_books) |->
            [book_id |-> StrToInt(sorted_books[i].key),
             title |-> sorted_books[i].value.title,
             author |-> sorted_books[i].value.author,
             total_minutes |-> sorted_books[i].value.total_minutes]]

\* the dict wrapped_stats; the two rounded values are in tenths
WrappedStats(year, l) ==
    LET total_minutes == DictGet(l, "total_minutes")
        days_read == Len(DictGet(l, "daily_stats"))
        by_year == DictGet(l, "books_finished_by_year")
    IN  <<[key |-> "year", value |-> year],
          [key |-> "total_minutes_read", value |-> total_minutes],
          [key |-> "total_hours_read", value |-> RoundTenths(total_minutes, 60)],
          [key |-> "books_read", value |-> DictGet(l, "books_read")],
          [key |-> "books_finished_in_year",
           value |-> IF DictHas(by_year, year) THEN DictGet(by_year, year) ELSE 0],
          [key |-> "days_read", value |-> days_read],
          [key |-> "average_minutes_per_day",
           value |-> AverageMinutesPerDay(total_minutes, days_read).value[1]],
          [key |-> "most_read_book", value |-> DictGet(l, "most_read_book")],
          [key |-> "most_read_author", value |-> DictGet(l, "most_read_author")],
          [key |-> "longest_session",
           value |-> SeqMax(MinutesOf(DictGet(l, "sessions")))],
          [key |-> "current_streak", value |-> DictGet(l, "current_streak")],
          [key |-> "top_books", value |-> TopBooks(DictGet(l, "book_stats"))]>>

GetWrappedStatsCall(t, year) ==
    /\ Free(t)
    /\ calls' = [calls EXCEPT ![t] =
                    [op |-> "get_wrapped_stats", year |-> year, pc |-> 1,
                     locals |-> <<>>]]
    /\ UNCHANGED <<books, sessions, seq, today, response>>

\* get_wrapped_stats: the next query is made; after the last one the dict
\* wrapped_stats is built and returned
GetWrappedStatsStep(t) ==
    /\ calls[t].op = "get_wrapped_stats"
    /\ LET c == calls[t]
           k == WrappedQueries[c.pc]
           locals == DictSet(c.locals, k, WrappedValue(k, c.year))
       IN  IF c.pc = Len(WrappedQueries)
           THEN /\ calls' = [calls EXCEPT ![t] =
                                [op |-> "returned", handler |-> "get_wrapped_stats",
                                 result |-> WrappedStats(c.year, locals)]]
                /\ response' = Ok
           ELSE /\ calls' = [calls EXCEPT ![t] =
                                [c EXCEPT !.pc = @ + 1, !.locals = locals]]
                /\ UNCHANGED response
    /\ UNCHANGED <<books, sessions, seq, today>>

\* GET /stats/streaks: both streaks, or the first exception
GetStreakStats(t) ==
    /\ Free(t)
    /\ LET current_streak == CurrentStreakCall(SessionGetAll)
           max_streak == MaxStreakCall(SessionGetAll)
           outcome == IF current_streak.exc # "None" THEN current_streak
                      ELSE IF max_streak.exc # "None" THEN max_streak
                      ELSE Return([current_streak |-> current_streak.value[1],
                                   max_streak |-> max_streak.value[1]])
       IN  /\ calls' = [calls EXCEPT ![t] =
                           [op |-> "returned", handler |-> "get_streak_stats",
                            result |-> outcome]]
           /\ response' = IF outcome.exc = "None" THEN Ok ELSE ServerError
    /\ UNCHANGED <<books, sessions, seq, today>>

---------------------------------------------------------------------------
(* services/wrapped_service.py: the sections of the report. Every dict is  *)
(* a sequence of entries; every float rounded to one decimal is kept in    *)
(* tenths.                                                                 *)

Entry(k, v) == [key |-> k, value |-> v]

\* a value that Python takes for true in a condition: not None and not ''
Truthy(s) == s # NULL /\ Len(s) > 0

\* next((b for b in books if b.get_id() == book_id), None)
FindBook(books_list, book_id) ==
    IF \E i \in 1..Len(books_list) : books_list[i].id = book_id
    THEN <<books_list[CHOOSE i \in 1..Len(books_list) :
                /\ books_list[i].id = book_id
                /\ \A j \in 1..(i - 1) : books_list[j].id # book_id]>>
    ELSE <<>>

\* min(items, key=...): the first item whose key is minimal
MinIndexBy(vals) ==
    CHOOSE i \in 1..Len(vals) :
        /\ \A j \in 1..Len(vals) : vals[i] <= vals[j]
        /\ \A j \in 1..(i - 1) : vals[i] < vals[j]

\* len(set(s.get_date() for s in sessions)): the date strings as stored
DateStrings(q) == {q[i].date : i \in 1..Len(q)}

\* n // d of Python; a zero divisor raises
FloorQuotient(n, d) ==
    IF d = 0 THEN Raise("ZeroDivisionError") ELSE Return(n \div d)

\* total_minutes // total_days if total_days > 0 else 0
AvgPerDay(total_minutes, total_days) ==
    IF total_days > 0 THEN FloorQuotient(total_minutes, total_days) ELSE Return(0)

\* a section of the report is the outcome of its computation: the dict, or
\* the first exception raised on the way
calculate_general_stats(q) ==
    IF Len(q) = 0
    THEN Return(<<Entry("total_books_finished", 0), Entry("total_minutes", 0),
                  Entry("total_days_with_reading", 0),
                  Entry("average_minutes_per_active_day", 0),
                  Entry("longest_streak", 0)>>)
    ELSE LET total_minutes == SeqSum(MinutesOf(q))
             total_days == Cardinality(DateStrings(q))
             avg_per_day == AvgPerDay(total_minutes, total_days)
             longest_streak == LongestStreakCall(q)
         IN  IF avg_per_day.exc # "None" THEN avg_per_day
             ELSE IF longest_streak.exc # "None" THEN longest_streak
             ELSE Return(<<Entry("total_minutes", total_minutes),
                           Entry("total_hours", RoundTenths(total_minutes, 60)),
                           Entry("total_days_with_reading", total_days),
                           Entry("average_minutes_per_active_day", avg_per_day.value[1]),
                           Entry("longest_streak", longest_streak.value[1])>>)

\* A loop d[key] += amount over a list fills a defaultdict: the keys in the
\* order of their first row, each with the sum of the amounts of its rows
FirstRows(keys) == {i \in 1..Len(keys) : \A j \in 1..(i - 1) : keys[j] # keys[i]}

\* the n-th element of a set of positions
Nth(S, n) == CHOOSE i \in S : Cardinality({j \in S : j < i}) = n - 1

\* the sum of the amounts of the rows of key k
SumOfKey(keys, amounts, k) ==
    SeqSum([i \in 1..Len(keys) |-> IF keys[i] = k THEN amounts[i] ELSE 0])

GroupSumOf(keys, amounts, first) ==
    [n \in 1..Cardinality(first) |->
        Only({Entry(k, SumOfKey(keys, amounts, k)) : k \in {keys[Nth(first, n)]}})]

GroupSum(keys, amounts) ==
    Only({Only({GroupSumOf(ks, as, first) : first \in {FirstRows(ks)}})
          : ks \in {keys}, as \in {amounts}})

BookIdsOf(q) == [i \in 1..Len(q) |-> q[i].book_id]

Ones(q) == [i \in 1..Len(q) |-> 1]

\* book_data[session.get_book_id()]["minutes"] += minutes and
\* book_data[session.get_book_id()]["sessions"] += 1, for all sessions
BookData(q) ==
    LET minutes == GroupSum(BookIdsOf(q), MinutesOf(q))
        count == GroupSum(BookIdsOf(q), Ones(q))
    IN  [i \in 1..Len(minutes) |->
            Entry(minutes[i].key,
                  [minutes |-> minutes[i].value, sessions |-> count[i].value])]

\* the finished books whose two dates strptime parses, each with its
\* duration in days; the others are passed over by the bare except
RECURSIVE BooksWithDuration(_)
BooksWithDuration(finished_books) ==
    IF Len(finished_books) = 0 THEN <<>>
    ELSE LET book == Head(finished_books)
         IN  IF StrptimeRaises(book.start_date) \/ StrptimeRaises(book.end_date)
             THEN BooksWithDuration(Tail(finished_books))
             ELSE <<[book |-> book,
                     duration |-> ToOrdinal(Strptime(book.end_date))
                                  - ToOrdinal(Strptime(book.start_date))]>>
                  \o BooksWithDuration(Tail(finished_books))

\* [b for b in books if b.get_status() == "finished" and b.get_end_date()]
FinishedBooks(books_list) ==
    SelectSeq(books_list, LAMBDA b : b.status = "finished" /\ Truthy(b.end_date))

Durations(books_with_duration) ==
    [i \in 1..Len(books_with_duration) |-> books_with_duration[i].duration]

\* the entry "most_read_by_minutes" or "most_sessions"
ProtagonistEntry(book, field, amount) ==
    IF book = <<>> THEN <<>>
    ELSE <<<<Entry("id", book[1].id), Entry("title", book[1].title),
             Entry("author", book[1].author), Entry(field, amount)>>>>

\* the entry "fastest" or "slowest"
DurationEntry(books_with_duration, i) ==
    <<<<Entry("title", books_with_duration[i].book.title),
        Entry("author", books_with_duration[i].book.author),
        Entry("days", books_with_duration[i].duration)>>>>

calculate_protagonist_book(q, books_list) ==
    IF Len(q) = 0 THEN <<>>
    ELSE LET book_data == BookData(q)
             most_minutes ==
                 book_data[MaxIndexBy([i \in 1..Len(book_data) |-> book_data[i].value.minutes])]
             most_sessions ==
                 book_data[MaxIndexBy([i \in 1..Len(book_data) |-> book_data[i].value.sessions])]
             books_with_duration == BooksWithDuration(FinishedBooks(books_list))
         IN  <<Entry("most_read_by_minutes",
                     ProtagonistEntry(FindBook(books_list, most_minutes.key), "minutes",
                                      most_minutes.value.minutes)),
               Entry("most_sessions",
                     ProtagonistEntry(FindBook(books_list, most_sessions.key), "sessions",
                                      most_sessions.value.sessions)),
               Entry("fastest",
                     IF Len(books_with_duration) = 0 THEN <<>>
                     ELSE DurationEntry(books_with_duration,
                                        MinIndexBy(Durations(books_with_duration)))),
               Entry("slowest",
                     IF Len(books_with_duration) = 0 THEN <<>>
                     ELSE DurationEntry(books_with_duration,
                                        MaxIndexBy(Durations(books_with_duration))))>>


\* the sessions whose book is found and whose author Python takes for true
WithAuthor(q, books_list) ==
    SelectSeq(q, LAMBDA s : /\ FindBook(books_list, s.book_id) # <<>>
                            /\ Truthy(FindBook(books_list, s.book_id)[1].author))

\* author_minutes[book.get_author()] += session.get_minutes_read()
AuthorMinutes(q, books_list) ==
    GroupSum([i \in 1..Len(WithAuthor(q, books_list)) |->
                 FindBook(books_list, WithAuthor(q, books_list)[i].book_id)[1].author],
             MinutesOf(WithAuthor(q, books_list)))

\* sorted(author_minutes.items(), key=lambda x: x[1], reverse=True): authors
\* of equal time keep the order of the dict
RECURSIVE SortedAuthors(_)
SortedAuthors(items) ==
    IF Len(items) = 0 THEN <<>>
    ELSE LET i == MaxIndexBy(DictValues(items))
         IN  <<items[i]>> \o
             SortedAuthors(SubSeq(items, 1, i - 1) \o SubSeq(items, i + 1, Len(items)))

AuthorEntry(item) ==
    <<Entry("name", item.key), Entry("minutes", item.value),
      Entry("hours", RoundTenths(item.value, 60))>>

\* [:3]
TopAuthorsCount == 3

NoAuthorsStats ==
    [most_read_author |-> <<>>, unique_authors |-> 0, top_3_authors |-> <<>>]

calculate_authors_stats(q, books_list) ==
    IF Len(q) = 0 THEN NoAuthorsStats
    ELSE LET author_minutes == AuthorMinutes(q, books_list)
             sorted_authors == SortedAuthors(author_minutes)
             top == SubSeq(sorted_authors, 1,
                           IF Len(sorted_authors) < TopAuthorsCount
                           THEN Len(sorted_authors) ELSE TopAuthorsCount)
         IN  IF Len(author_minutes) = 0 THEN NoAuthorsStats
             ELSE [most_read_author |-> <<AuthorEntry(sorted_authors[1])>>,
                   unique_authors |-> Len(author_minutes),
                   top_3_authors |-> [i \in 1..Len(top) |-> AuthorEntry(top[i])]]

\* date.weekday(): Monday is 0 (1 January of year 1 was a Monday)
Weekday(dt) == (ToOrdinal(dt) + 6) % 7

day_names ==
    <<"Monday", "Tuesday", "Wednesday", "Thursday", "Friday", "Saturday", "Sunday">>

month_names ==
    <<"January", "February", "March", "April", "May", "June",
      "July", "August", "September", "October", "November", "December">>

\* mutant of CountSessions: the upper bound is left out
CountSessionsBelow(q, lo, hi) ==
    Cardinality({i \in 1..Len(q) : lo <= q[i].minutes_read /\ q[i].minutes_read < hi})


\* sum(1 for s in sessions if lo <= s.get_minutes_read() <= hi)
CountSessions(q, lo, hi) ==
    Cardinality({i \in 1..Len(q) : lo <= q[i].minutes_read /\ q[i].minutes_read <= hi})

\* the bounds of the three classes: short < 20, medium 20..45, long > 45
ShortBelow == 20

LongAbove == 45

\* round((n / len(sessions)) * 100, 1), in tenths
Percentage(n, total) == RoundTenths(100 * n, total)

\* day_counts[date.weekday()] += 1
DayCounts(q) ==
    GroupSum([i \in 1..Len(q) |-> Weekday(Strptime(q[i].date))], Ones(q))

\* month_minutes[date.month] += session.get_minutes_read()
MonthMinutes(q) ==
    GroupSum([i \in 1..Len(q) |-> Strptime(q[i].date)[2]], MinutesOf(q))

calculate_reading_habits(q) ==
    IF Len(q) = 0 THEN Return(<<>>)
    ELSE IF AnyStrptimeRaises(q) THEN Raise("ValueError")
    ELSE LET total_minutes == SeqSum(MinutesOf(q))
             short_sessions == Cardinality({i \in 1..Len(q) : q[i].minutes_read < ShortBelow})
             medium_sessions == CountSessions(q, ShortBelow, LongAbove)
             long_sessions == Cardinality({i \in 1..Len(q) : q[i].minutes_read > LongAbove})
             day_counts == DayCounts(q)
             most_common_day_num == day_counts[MaxIndexBy(DictValues(day_counts))].key
             month_minutes == MonthMinutes(q)
             best_month == month_minutes[MaxIndexBy(DictValues(month_minutes))]
         IN  Return(
             <<Entry("average_session_duration", total_minutes \div Len(q)),
               Entry("session_classification",
                     <<Entry("short", short_sessions), Entry("medium", medium_sessions),
                       Entry("long", long_sessions),
                       Entry("short_percentage", Percentage(short_sessions, Len(q))),
                       Entry("medium_percentage", Percentage(medium_sessions, Len(q))),
                       Entry("long_percentage", Percentage(long_sessions, Len(q)))>>),
               Entry("favorite_day", day_names[most_common_day_num + 1]),
               Entry("best_month",
                     <<Entry("name", month_names[best_month.key]),
                       Entry("minutes", best_month.value),
                       Entry("hours", RoundTenths(best_month.value, 60))>>)>>)

DatesOf(q) == [i \in 1..Len(q) |-> q[i].date]

\* day_data[date]["minutes"] += minutes; day_data[date]["sessions"] += 1
DayData(q) ==
    LET minutes == GroupSum(DatesOf(q), MinutesOf(q))
        count == GroupSum(DatesOf(q), Ones(q))
    IN  [i \in 1..Len(minutes) |->
            Entry(minutes[i].key,
                  [minutes |-> minutes[i].value, sessions |-> count[i].value])]

calculate_biggest_reading_day(q) ==
    IF Len(q) = 0 THEN <<>>
    ELSE LET day_data == DayData(q)
             best == day_data[MaxIndexBy([i \in 1..Len(day_data) |-> day_data[i].value.minutes])]
         IN  <<[date |-> best.key, minutes |-> best.value.minutes,
                hours |-> RoundTenths(best.value.minutes, 60),
                sessions |-> best.value.sessions]>>


\* [b for b in books if b.get_status() == "finished" and b.get_end_date()
\*  and b.get_end_date().startswith(str(year))]
FinishedInYear(books_list, year) ==
    SelectSeq(books_list, LAMBDA b : /\ b.status = "finished"
                                     /\ Truthy(b.end_date)
                                     /\ StartsWith(b.end_date, IntToStr(year)))

\* [b for b in books if b.get_start_date()
\*  and b.get_start_date().startswith(str(year))]
StartedInYear(books_list, year) ==
    SelectSeq(books_list, LAMBDA b : /\ Truthy(b.start_date)
                                     /\ StartsWith(b.start_date, IntToStr(year)))

\* mutant of CompletionRate: the quotient without its guard
CompletionRateUnguarded(finished, started) == RoundedQuotient(100 * finished, started)

\* round((finished / started) * 100, 1) if started_in_year else 0
CompletionRate(finished, started) ==
    IF started > 0 THEN RoundedQuotient(100 * finished, started) ELSE Return(0)

\* the books being read whose start date strptime parses, each with the
\* days since then: (datetime.now() - start).days
RECURSIVE ReadingDuration(_)
ReadingDuration(currently_reading) ==
    IF Len(currently_reading) = 0 THEN <<>>
    ELSE LET book == Head(currently_reading)
         IN  IF StrptimeRaises(book.start_date)
             THEN ReadingDuration(Tail(currently_reading))
             ELSE <<[book |-> book,
                     duration |-> ToOrdinal(today) - ToOrdinal(Strptime(book.start_date))]>>
                  \o ReadingDuration(Tail(currently_reading))

\* reading_duration.sort(key=lambda x: x[1], reverse=True): stable
RECURSIVE SortedByDuration(_)
SortedByDuration(items) ==
    IF Len(items) = 0 THEN <<>>
    ELSE LET i == MaxIndexBy(Durations(items))
         IN  <<items[i]>> \o
             SortedByDuration(SubSeq(items, 1, i - 1) \o SubSeq(items, i + 1, Len(items)))

\* [:3]
TopReadingCount == 3

calculate_reading_status(books_list, year) ==
    LET finished_in_year == FinishedInYear(books_list, year)
        started_in_year == StartedInYear(books_list, year)
        currently_reading == SelectSeq(books_list, LAMBDA b : b.status = "reading")
        reading_duration == SortedByDuration(ReadingDuration(currently_reading))
        top == SubSeq(reading_duration, 1,
                      IF Len(reading_duration) < TopReadingCount
                      THEN Len(reading_duration) ELSE TopReadingCount)
        completion_rate == CompletionRate(Len(finished_in_year), Len(started_in_year))
    IN  IF completion_rate.exc # "None" THEN completion_rate
        ELSE Return([books_finished |-> Len(finished_in_year),
                     books_started |-> Len(started_in_year),
                     currently_reading |-> Len(currently_reading),
                     completion_rate |-> completion_rate.value[1],
                     longest_in_reading |->
                         [i \in 1..Len(top) |->
                             [title |-> top[i].book.title, author |-> top[i].book.author,
                              days |-> top[i].duration]]])

\* n / d of Python, not rounded: the fraction; a zero divisor raises
Ratio(n, d) ==
    IF d = 0 THEN Raise("ZeroDivisionError") ELSE Return([num |-> n, den |-> d])

\* (finished / started) * 100 if started_books else 0; it is compared with
\* a bound on the integers: rate > 80 is num > 80 * den
PersonalityCompletion(finished, started) ==
    IF started > 0 THEN Ratio(100 * finished, started)
    ELSE Return([num |-> 0, den |-> 1])

PersonalityDescription(type) ==
    CASE type = "beginner" -> "You're just starting your reading journey!"
      [] type = "constant_reader" ->
             "You're a constant reader! You prefer short, frequent sessions and make reading a daily habit."
      [] type = "intensive_reader" ->
             "You're an intensive reader! When you read, you dive deep with long, immersive sessions."
      [] type = "explorer" ->
             "You're an explorer! You love starting new books and discovering different stories."
      [] type = "finisher" ->
             "You're a finisher! You're committed to completing what you start."
      [] type = "balanced_reader" ->
             "You're a balanced reader! You have a healthy mix of reading habits."

Personality(type) == [type |-> type, description |-> PersonalityDescription(type)]

\* mutant of PersonalityType: the first rule takes 100 sessions for many
PersonalityTypeFromHundred(total_sessions, total_minutes, started, finished, completion_rate) ==
    IF total_sessions >= 100 /\ total_minutes < 30 * total_sessions THEN "constant_reader"
    ELSE IF total_sessions < 50 /\ total_minutes > 45 * total_sessions THEN "intensive_reader"
    ELSE IF started > finished * 2 THEN "explorer"
    ELSE IF completion_rate.num > 80 * completion_rate.den THEN "finisher"
    ELSE "balanced_reader"


\* the if/elif chain over the four numbers it reads; avg_session is
\* total_minutes / total_sessions, so avg_session < 30 is
\* total_minutes < 30 * total_sessions
PersonalityType(total_sessions, total_minutes, started, finished, completion_rate) ==
    IF total_sessions > 100 /\ total_minutes < 30 * total_sessions THEN "constant_reader"
    ELSE IF total_sessions < 50 /\ total_minutes > 45 * total_sessions THEN "intensive_reader"
    ELSE IF started > finished * 2 THEN "explorer"
    ELSE IF completion_rate.num > 80 * completion_rate.den THEN "finisher"
    ELSE "balanced_reader"

determine_reader_personality(q, books_list, year) ==
    IF Len(q) = 0 THEN Return(Personality("beginner"))
    ELSE LET started_books == StartedInYear(books_list, year)
             finished_books == FinishedInYear(books_list, year)
             completion_rate == PersonalityCompletion(Len(finished_books), Len(started_books))
         IN  IF completion_rate.exc # "None" THEN completion_rate
             ELSE Return(Personality(
                      PersonalityType(Len(q), SeqSum(MinutesOf(q)), Len(started_books),
                                      Len(finished_books), completion_rate.value[1])))


\* datetime.MINYEAR and datetime.MAXYEAR: datetime(year, 1, 1) raises
\* ValueError for a year outside them
MINYEAR == 1

MAXYEAR == 9999

\* the sections in the order of the dict literal
WrappedSections(q, all_books, year) ==
    <<Entry("general_stats", calculate_general_stats(q)),
      Entry("protagonist_book", Return(calculate_protagonist_book(q, all_books))),
      Entry("authors_stats", Return(calculate_authors_stats(q, all_books))),
      Entry("reading_habits", calculate_reading_habits(q)),
      Entry("biggest_reading_day", Return(calculate_biggest_reading_day(q))),
      Entry("reading_status", calculate_reading_status(all_books, year)),
      Entry("reader_personality", determine_reader_personality(q, all_books, year))>>

\* get_wrapped_data(year): the report, or the first exception raised
\* the report of the sections, or the exception of the first one that raises
WrappedReport(year, sections) ==
    LET raising == {i \in 1..Len(sections) : sections[i].value.exc # "None"}
    IN  IF raising # {}
        THEN sections[CHOOSE i \in raising : \A j \in raising : i <= j].value
        ELSE Return(<<Entry("year", year)>> \o
                    [i \in 1..Len(sections) |->
                        Entry(sections[i].key, sections[i].value.value[1])])

get_wrapped_data(year) ==
    IF year < MINYEAR \/ year > MAXYEAR THEN Raise("ValueError")
    ELSE Only({Only({WrappedReport(year, sections)
                     : sections \in {WrappedSections(q, all_books, year)}})
               : q \in {WrappedSessions(year)}, all_books \in {BookGetAll}})


---------------------------------------------------------------------------
(* The two yearly reports asked for in one piece: no other request runs    *)
(* between the queries of one report.                                      *)

\* StatsService.get_wrapped_stats(year): the dict, or the exception raised
WrappedLocals(year) ==
    [i \in 1..Len(WrappedQueries) |->
        Entry(WrappedQueries[i], WrappedValue(WrappedQueries[i], year))]

\* the dict built from the answers l, unless the average raises
WrappedStatsCall(year, l) ==
    LET average == AverageMinutesPerDay(DictGet(l, "total_minutes"),
                                        Len(DictGet(l, "daily_stats")))
    IN  IF average.exc # "None" THEN average ELSE Return(WrappedStats(year, l))

get_wrapped_stats(year) ==
    Only({WrappedStatsCall(year, l) : l \in {WrappedLocals(year)}})

\* GET /stats/wrapped/{year}
GetWrappedStats(t, year) ==
    /\ Free(t)
    /\ \E outcome \in {get_wrapped_stats(year)} :
           /\ calls' = [calls EXCEPT ![t] =
                           [op |-> "returned", handler |-> "get_wrapped_stats",
                            year |-> year, result |-> outcome]]
           /\ response' = IF outcome.exc = "None" THEN Ok ELSE ServerError
    /\ UNCHANGED <<books, sessions, seq, today>>

\* a caller of WrappedService.get_wrapped_data(year), such as the handlers
\* of routers/wrapped_router.py, which turn an exception into a 500
GetWrappedData(t, year) ==
    /\ Free(t)
    /\ \E outcome \in {get_wrapped_data(year)} :
           /\ calls' = [calls EXCEPT ![t] =
                           [op |-> "returned", handler |-> "get_wrapped_data",
                            year |-> year, result |-> outcome]]
           /\ response' = IF outcome.exc = "None" THEN Ok ELSE ServerError
    /\ UNCHANGED <<books, sessions, seq, today>>


\* GET /wrapped/personality
GetReaderPersonality(t, year) ==
    /\ Free(t)
    /\ \E wrapped_data \in {get_wrapped_data(year)} :
       \E outcome \in {IF wrapped_data.exc # "None" THEN wrapped_data
                        ELSE Return([year |-> year,
                                     personality |->
                                         DictGet(wrapped_data.value[1],
                                                 "reader_personality")])} :
           /\ calls' = [calls EXCEPT ![t] =
                           [op |-> "returned", handler |-> "get_reader_personality",
                            year |-> year, result |-> outcome]]
           /\ response' = IF outcome.exc = "None" THEN Ok ELSE ServerError
    /\ UNCHANGED <<books, sessions, seq, today>>

\* A call self.get_books_finished_count(*args): the method is declared with
\* self alone, so a call that passes an argument, None included, raises
\* TypeError before its body runs
BooksFinishedCountCall(args) ==
    IF Len(args) > 0 THEN Raise("TypeError") ELSE Return(get_books_finished_count)

\* GET /stats/books-finished: stats_service.get_books_finished_count(year)
GetBooksFinished(t, year) ==
    /\ Free(t)
    /\ \E count \in {BooksFinishedCountCall(<<year>>)} :
       \E outcome \in {IF count.exc # "None" THEN count
                       ELSE Return(<<Entry("books_finished", count.value[1])>>)} :
           /\ calls' = [calls EXCEPT ![t] =
                           [op |-> "returned", handler |-> "get_books_finished",
                            year |-> year, result |-> outcome]]
           /\ response' = IF outcome.exc = "None" THEN Ok ELSE ServerError
    /\ UNCHANGED <<books, sessions, seq, today>>

\* GET /stats/basic: the four keyword arguments of BasicStatsResponse are
\* evaluated in turn; books_finished is the second
GetBasicStats(t, year) ==
    /\ Free(t)
    /\ \E count \in {BooksFinishedCountCall(<<year>>)} :
       \E outcome \in {IF count.exc # "None" THEN count
                       ELSE Return(<<Entry("total_minutes_read", get_total_time_read(year)),
                                     Entry("books_finished", count.value[1]),
                                     Entry("current_streak", calculate_current_streak),
                                     Entry("most_read_author", get_most_read_author(year))>>)} :
           /\ calls' = [calls EXCEPT ![t] =
                           [op |-> "returned", handler |-> "get_basic_stats",
                            year |-> year, result |-> outcome]]
           /\ response' = IF outcome.exc = "None" THEN Ok ELSE ServerError
    /\ UNCHANGED <<books, sessions, seq, today>>

\* sorted(result, key=lambda x: x.total_minutes, reverse=True) of
\* format_book_stats: the items of the dict as response objects
FormatBookStats(stats_dict) ==
    LET sorted_items == SortedBooks(stats_dict)
    IN  [i \in 1..Len(sorted_items) |->
            [book_id |-> StrToInt(sorted_items[i].key),
             title |-> sorted_items[i].value.title,
             author |-> sorted_items[i].value.author,
             total_minutes |-> sorted_items[i].value.total_minutes]]

\* GET /stats/books
GetBookStats(t, year) ==
    /\ Free(t)
    /\ \E outcome \in {Return(FormatBookStats(get_time_by_book(year)))} :
           /\ calls' = [calls EXCEPT ![t] =
                           [op |-> "returned", handler |-> "get_book_stats",
                            year |-> year, result |-> outcome]]
           /\ response' = Ok
    /\ UNCHANGED <<books, sessions, seq, today>>

\* GET /stats/most-read-book
GetMostReadBook(t, year) ==
    /\ Free(t)
    /\ \E outcome \in {Return(get_most_read_book(year))} :
           /\ calls' = [calls EXCEPT ![t] =
                           [op |-> "returned", handler |-> "get_most_read_book",
                            year |-> year, result |-> outcome]]
           /\ response' = Ok
    /\ UNCHANGED <<books, sessions, seq, today>>

\* GET /stats/most-read-author
GetMostReadAuthor(t, year) ==
    /\ Free(t)
    /\ \E outcome \in {Return(<<Entry("author", get_most_read_author(year))>>)} :
           /\ calls' = [calls EXCEPT ![t] =
                           [op |-> "returned", handler |-> "get_most_read_author",
                            year |-> year, result |-> outcome]]
           /\ response' = Ok
    /\ UNCHANGED <<books, sessions, seq, today>>

\* GET /wrapped/habits
GetReadingHabits(t, year) ==
    /\ Free(t)
    /\ \E wrapped_data \in {get_wrapped_data(year)} :
       \E outcome \in {IF wrapped_data.exc # "None" THEN wrapped_data
                        ELSE Return([year |-> year,
                                     habits |->
                                         DictGet(wrapped_data.value[1],
                                                 "reading_habits")])} :
           /\ calls' = [calls EXCEPT ![t] =
                           [op |-> "returned", handler |-> "get_reading_habits",
                            year |-> year, result |-> outcome]]
           /\ response' = IF outcome.exc = "None" THEN Ok ELSE ServerError
    /\ UNCHANGED <<books, sessions, seq, today>>

---------------------------------------------------------------------------
(* The system *)

Threads == {"t1", "t2"}

\* main.py lifespan: initialize_database on an empty file, no request served
Init ==
    /\ books = {}
    /\ sessions = {}
    /\ seq = [books |-> 0, sessions |-> 0]
    /\ today = Epoch
    /\ response = NoResponse
    /\ calls = [t \in Threads |-> Idle]

\* request bodies the clients send
Minutes == {0, 10, 25}
BookIds == 1..MaxBooks
SessionIds == 1..MaxSessions

(* The streak scenario: one book is created, sessions of ten minutes are   *)
(* logged for any day of the window and deleted, days pass.                 *)
NextStats ==
    \/ books = {} /\ CreateBook(<<"T">>, <<"A">>, Epoch)
    \/ \E b \in BookIds, d \in Days, m \in {0, 10} : CreateSession(b, d, m)
    \/ \E i \in SessionIds : DeleteSession(i)
    \/ Tick

SpecStats == Init /\ [][NextStats]_vars

\* the last day of the old year and the first two days of the new one
AroundNewYear == {Epoch, NextDay(Epoch), NextDay(NextDay(Epoch))}

(* The totals scenario: one book is created, sessions of different lengths *)
(* are logged around the new year and deleted, days pass.                   *)
NextTotals ==
    \/ books = {} /\ CreateBook(<<"T">>, <<"A">>, Epoch)
    \/ \E b \in BookIds, d \in AroundNewYear, m \in Minutes : CreateSession(b, d, m)
    \/ \E i \in SessionIds : DeleteSession(i)
    \/ Tick

SpecTotals == Init /\ [][NextTotals]_vars

(* The race scenario: books are created; two threads serve create_session  *)
(* and delete_book requests, one statement at a time.                       *)
NextRace ==
    \/ CreateBook(<<"T">>, <<"A">>, Epoch)
    \/ \E t \in Threads, b \in BookIds, d \in {Epoch, NextDay(Epoch)}, m \in {0, 10} :
           CreateSessionValidate(t, b, d, m)
    \/ \E t \in Threads : CreateSessionInsert(t)
    \/ \E t \in Threads, b \in BookIds : DeleteBookGet(t, b)
    \/ \E t \in Threads : DeleteBookHasSessions(t)
    \/ \E t \in Threads : DeleteBookDelete(t)

SpecRace == Init /\ [][NextRace]_vars

(* The dashboard scenario: one book is created, sessions of the last day   *)
(* of 2023 are logged and deleted, and meanwhile thread t1 serves summary   *)
(* and wrapped requests, one query at a time.                               *)
NextSnapshot ==
    \/ books = {} /\ CreateBook(<<"T">>, <<"A">>, Epoch)
    \/ \E b \in BookIds, m \in {0, 10} : CreateSession(b, Epoch, m)
    \/ \E i \in SessionIds : DeleteSession(i)
    \/ \E year \in {NoYear, <<Epoch[1]>>} : GetSummaryStatsCall("t1", year)
    \/ GetSummaryStatsStep("t1")
    \/ GetWrappedStatsCall("t1", Epoch[1])
    \/ GetWrappedStatsStep("t1")

SpecSnapshot == Init /\ [][NextSnapshot]_vars

\* request bodies of the book routes
Titles == {<<" ">>, <<"T">>}
NewTitles == {NULL, <<" ">>}
EndDates == Days \cup {NoDate}
StatusWords == {NoStatus, "reading", "finished", "paused"}

(* The book scenario: the shelf holds one book at a time; it is created,   *)
(* edited, finished and removed while days pass.                            *)
NextBooks ==
    \/ books = {} /\ \E t \in Titles, d \in Days : CreateBook(t, NULL, d)
    \/ \E b \in BookIds, t \in NewTitles, e \in EndDates, st \in StatusWords :
           UpdateBook(b, t, NULL, e, st)
    \/ \E b \in BookIds, e \in Days : MarkAsFinished(b, e)
    \/ \E b \in BookIds : DeleteBook(b)
    \/ Tick

SpecBooks == Init /\ [][NextBooks]_vars

(* The library scenario: books are created and removed, sessions of ten    *)
(* minutes are logged for the first day and deleted.                        *)
NextLibrary ==
    \/ CreateBook(<<"T">>, <<"A">>, Epoch)
    \/ \E b \in BookIds : CreateSession(b, Epoch, 10)
    \/ \E i \in SessionIds : DeleteSession(i)
    \/ \E b \in BookIds : DeleteBook(b)

SpecLibrary == Init /\ [][NextLibrary]_vars

\* the dates of the rows of a database file the server is started on: days
\* as the server writes them, and strings that are no date
RecordDates ==
    {Strftime(DayAt(1)), Strftime(DayAt(2)), Strftime(DayAt(4)),
     <<"2", "0", "2", "4", "-", "0", "2", "-", "3", "0">>,
     <<"2", "0", "2", "4", "-", "1", "3", "-", "0", "1">>}

\* initialize_database on a file that holds one book and rows of sessions:
\* CREATE TABLE IF NOT EXISTS keeps them, and the column date is plain TEXT
InitRecords ==
    /\ books = {BookRow(1, <<"T">>, <<"A">>, Strftime(Epoch), NULL, "reading")}
    /\ \E n \in 0..MaxSessions : \E dates \in [1..n -> RecordDates] :
           /\ sessions = {SessionRow(i, 1, dates[i], 10) : i \in 1..n}
           /\ seq = [books |-> 1, sessions |-> n]
    /\ today \in {DayAt(4), DayAt(5)}
    /\ response = NoResponse
    /\ calls = [t \in Threads |-> Idle]

(* The records scenario: the statistics are asked for over such rows.      *)
NextRecords ==
    \/ GetStreakStats("t1")

SpecRecords == InitRecords /\ [][NextRecords]_vars


\* the rows of books a database file may hold: the column author is plain
\* TEXT and may be NULL, '' or blank; a book started in 2023 is finished in
\* 2024
Shelf ==
    {[title |-> <<"T">>, author |-> NULL, start_date |-> Strftime(DayAt(1)),
      end_date |-> Strftime(DayAt(3)), status |-> "finished"],
     [title |-> <<"U">>, author |-> <<" ", " ">>, start_date |-> Strftime(DayAt(2)),
      end_date |-> NULL, status |-> "reading"],
     [title |-> <<"V">>, author |-> <<"A">>, start_date |-> Strftime(DayAt(2)),
      end_date |-> Strftime(DayAt(3)), status |-> "finished"],
     [title |-> <<"W">>, author |-> <<>>, start_date |-> Strftime(DayAt(1)),
      end_date |-> NULL, status |-> "reading"]}

\* the years asked for: before datetime.MINYEAR, the year of the sessions,
\* a year without any, and after datetime.MAXYEAR
ReportYears == {0, 2024, 2025, 10000}

\* initialize_database on a file that holds books and sessions of 1 January
\* 2024, in turn on the first and on the second book; it is 2 January
InitShelf ==
    /\ \E nb \in 0..MaxBooks : \E rows \in [1..nb -> Shelf] :
       \E n \in 0..MaxSessions :
           /\ books = {BookRow(i, rows[i].title, rows[i].author, rows[i].start_date,
                               rows[i].end_date, rows[i].status) : i \in 1..nb}
           /\ sessions = {SessionRow(i, 2 - (i % 2), Strftime(DayAt(2)), 10) : i \in 1..n}
           /\ seq = [books |-> nb, sessions |-> n]
    /\ today = DayAt(3)
    /\ response = NoResponse
    /\ calls = [t \in Threads |-> Idle]

(* The shelf scenario: the yearly reports are asked for over such a file.  *)
NextShelf ==
    \/ \E year \in ReportYears : GetWrappedData("t1", year)
    \/ \E year \in ReportYears : GetWrappedStats("t1", year)

SpecShelf == InitShelf /\ [][NextShelf]_vars


\* the sizes of a reading history on either side of the bounds of the rules
\* (50 and 100 sessions), and the minutes of a session on either side of
\* the two averages (30 and 45)
SessionCounts == {0, 1, 49, 50, 100, 101}

SessionMinutes == {29, 30, 45, 46}

\* how many books of each kind the file holds, after a first book started
\* in 2023 and still being read: started and finished in 2024, started in
\* 2024 and being read, started in 2023 and finished in 2024
BookCounts ==
    {<<0, 0, 0>>, <<0, 1, 0>>, <<1, 0, 0>>, <<1, 1, 0>>, <<4, 1, 0>>, <<0, 0, 1>>}

ReaderBook(id, started_2024, finished) ==
    BookRow(id, <<"T">>, <<"A">>,
            IF started_2024 THEN Strftime(DayAt(2)) ELSE Strftime(DayAt(1)),
            IF finished THEN Strftime(DayAt(3)) ELSE NULL,
            IF finished THEN "finished" ELSE "reading")

\* initialize_database on the file of a reader: sessions of equal length on
\* 1 January 2024, all on the first book
InitReaders ==
    /\ \E n \in SessionCounts : \E minutes \in SessionMinutes : \E c \in BookCounts :
           /\ books = {ReaderBook(1, FALSE, FALSE)}
                      \cup {ReaderBook(1 + i, TRUE, TRUE) : i \in 1..c[1]}
                      \cup {ReaderBook(1 + c[1] + i, TRUE, FALSE) : i \in 1..c[2]}
                      \cup {ReaderBook(1 + c[1] + c[2] + i, FALSE, TRUE) : i \in 1..c[3]}
           /\ sessions = {SessionRow(i, 1, Strftime(DayAt(2)), minutes) : i \in 1..n}
           /\ seq = [books |-> 1 + c[1] + c[2] + c[3], sessions |-> n]
    /\ today = DayAt(4)
    /\ response = NoResponse
    /\ calls = [t \in Threads |-> Idle]

(* The readers scenario: the personality is asked for, for the year of the *)
(* sessions and for the year after.                                        *)
NextReaders ==
    \/ \E year \in {2024, 2025} : GetReaderPersonality("t1", year)

SpecReaders == InitReaders /\ [][NextReaders]_vars

\* the query parameter year of the statistics routes: absent, or a year
YearFilters == {NoYear, <<2023>>, <<2024>>}

(* The counts scenario: the books-finished statistics are asked for over   *)
(* the file of the shelf scenario.                                         *)
NextCounts ==
    \/ \E year \in YearFilters : GetBooksFinished("t1", year)
    \/ \E year \in YearFilters : GetBasicStats("t1", year)

SpecCounts == InitShelf /\ [][NextCounts]_vars

\* the books of the ranking scenario: two books in three have an author
RankingAuthor(i) == IF i % 3 = 1 THEN <<"A">> ELSE IF i % 3 = 2 THEN <<"B">> ELSE NULL

\* the sessions of the ranking scenario go round the books, their minutes
\* round three lengths; every fourth is of the last day of 2023, the others
\* of two days of 2024
RankingDay(i) == IF i % 4 = 0 THEN DayAt(1) ELSE IF i % 4 = 2 THEN DayAt(3) ELSE DayAt(2)

\* every second book is finished, on the day of the session of its number
RankingBook(i) ==
    IF i % 2 = 0
    THEN BookRow(i, IntToStr(i), RankingAuthor(i), Strftime(DayAt(1)),
                 Strftime(RankingDay(i)), "finished")
    ELSE BookRow(i, IntToStr(i), RankingAuthor(i), Strftime(DayAt(1)), NULL, "reading")

RankingBooks == {1, 2, 6, 7}
RankingSessions == {0, 1, 3, 7, 8}
RankingMinutes == {10, 20}
RankingFilters == {NoYear, <<2024>>, <<202>>}
RankingYears == {2023, 2024}

\* initialize_database on a file that earlier requests have filled
InitRanking ==
    /\ \E nb \in RankingBooks : \E n \in RankingSessions :
       \E minutes \in [1..3 -> RankingMinutes] :
           /\ books = {RankingBook(i) : i \in 1..nb}
           /\ sessions = {SessionRow(i, ((i - 1) % nb) + 1, Strftime(RankingDay(i)),
                                     minutes[((i - 1) % 3) + 1]) : i \in 1..n}
           /\ seq = [books |-> nb, sessions |-> n]
    /\ today = DayAt(3)
    /\ response = NoResponse
    /\ calls = [t \in Threads |-> Idle]

(* The ranking scenario: the statistics by book and by author are asked    *)
(* for over several books whose totals may be equal.                       *)
NextRanking ==
    \/ \E year \in RankingFilters : GetBookStats("t1", year)
    \/ \E year \in RankingFilters : GetMostReadBook("t1", year)
    \/ \E year \in RankingFilters : GetMostReadAuthor("t1", year)
    \/ \E year \in RankingYears : GetWrappedStats("t1", year)

SpecRanking == InitRanking /\ [][NextRanking]_vars

\* the days of the habits scenario: a Tuesday, a Wednesday and the Monday
\* after them; the lengths around the bounds of the three classes
HabitDays == {<<2024, 1, 2>>, <<2024, 1, 3>>, <<2024, 1, 8>>}
HabitMinutes == {19, 20, 45, 46}
HabitSessions == 0..3

\* initialize_database on a file that earlier requests have filled: one
\* book and up to three sessions
InitHabits ==
    /\ \E n \in HabitSessions : \E days \in [1..n -> HabitDays] :
       \E minutes \in [1..n -> HabitMinutes] :
           /\ books = {BookRow(1, <<"T">>, <<"A">>, Strftime(Epoch), NULL, "reading")}
           /\ sessions = {SessionRow(i, 1, Strftime(days[i]), minutes[i]) : i \in 1..n}
           /\ seq = [books |-> 1, sessions |-> n]
    /\ today = <<2024, 1, 8>>
    /\ response = NoResponse
    /\ calls = [t \in Threads |-> Idle]

(* The habits scenario: the reading habits of the year of the sessions and *)
(* of the year after are asked for.                                        *)
NextHabits == \E year \in {2024, 2025} : GetReadingHabits("t1", year)

SpecHabits == InitHabits /\ [][NextHabits]_vars

---------------------------------------------------------------------------
(* Reference notions for the streak and year claims, stated on positions in *)
(* the window of days instead of on date arithmetic                         *)

DayStr == [i \in 1..NumDays |-> Strftime(DayAt(i))]

\* positions in the window of the days that have a session among rows
ReadDays(rows) == {i \in 1..NumDays : \E s \in rows : s.date = DayStr[i]}

TodayIndex == CHOOSE i \in 1..NumDays : DayAt(i) = today

SetMax(S) == CHOOSE x \in S : \A y \in S : y <= x

\* length of the run of read days that ends at position e
RunEndingAt(S, e) ==
    SetMax({k \in 0..NumDays : \A i \in 0..(k - 1) : (e - i) \in S})

\* length of the longest run of consecutive read days
LongestRun(S) == SetMax({0} \cup {RunEndingAt(S, e) : e \in S})

\* the calendar year a stored date lies in
YearOfDate(date) == Strptime(date)[1]

SessionsInYear(y) == {s \in sessions : YearOfDate(s.date) = y}

RECURSIVE TotalMinutes(_)
TotalMinutes(rows) ==
    IF rows = {} THEN 0
    ELSE LET x == CHOOSE r \in rows : TRUE
         IN  x.minutes_read + TotalMinutes(rows \ {x})

\* the years a client asks for: the years of the window, the year after, and
\* integers that are a proper prefix of a year of the window
Years == {2, 202, 2023, 2024, 2025}
CalendarYears == {2023, 2024, 2025}
YearArgs == {NoYear} \cup {<<y>> : y \in Years}

Jan(d) == Strftime(<<2024, 1, d>>)

---------------------------------------------------------------------------
(* C1: in every reachable state, for every value of today,                 *)
(* calculate_current_streak() <= calculate_max_streak().                   *)
C1_CurrentLeMax == calculate_current_streak <= calculate_max_streak

\* an active streak that is shorter than the longest one
C1_Witness ==
    /\ calculate_current_streak >= 1
    /\ calculate_max_streak > calculate_current_streak

(* C2: calculate_current_streak is 0 when there are no sessions or when    *)
(* the most recent session date is more than one day before today;         *)
(* otherwise it is the number of consecutive days with a session counted   *)
(* backward from the most recent session date to the first missing day.    *)
(* Sessions only on 2024-01-01 with today = 2024-01-05 give 0.             *)
C2_CurrentStreak ==
    LET S == ReadDays(sessions) IN
    /\ calculate_current_streak =
          IF S = {} THEN 0
          ELSE IF TodayIndex - SetMax(S) > 1 THEN 0
          ELSE RunEndingAt(S, SetMax(S))
    /\ ({s.date : s \in sessions} = {Jan(1)} /\ today = <<2024, 1, 5>>
            => calculate_current_streak = 0)

C2_Witness ==
    /\ {s.date : s \in sessions} = {Jan(1)}
    /\ today = <<2024, 1, 5>>

(* C3: calculate_max_streak, and _calculate_longest_streak over the         *)
(* sessions of a year, is the length of the longest run of consecutive      *)
(* calendar days among the distinct session dates: 0 for no session, 1 for  *)
(* exactly one distinct date.                                               *)
C3_MaxStreak ==
    /\ calculate_max_streak = LongestRun(ReadDays(sessions))
    /\ sessions = {} => calculate_max_streak = 0
    /\ Cardinality({s.date : s \in sessions}) = 1 => calculate_max_streak = 1
    /\ \A y \in CalendarYears :
          LET q == WrappedSessions(y)
              rows == SessionsInYear(y)
          IN  /\ Range(q) = rows
              /\ GeneralStatsLongestStreak(q) = LongestRun(ReadDays(rows))
              /\ rows = {} => GeneralStatsLongestStreak(q) = 0
              /\ Cardinality({s.date : s \in rows}) = 1
                    => GeneralStatsLongestStreak(q) = 1

\* three read days with one gap, the run of two crossing the year boundary
C3_Witness ==
    /\ Cardinality({s.date : s \in sessions}) = 3
    /\ calculate_max_streak = 2
    /\ GeneralStatsLongestStreak(WrappedSessions(2024)) = 1

(* C4 as stated: with sessions on exactly 2024-01-01, 2024-01-02 and        *)
(* 2024-01-04 and today = 2024-01-04, the current streak is 2 and the max   *)
(* streak is 2.                                                             *)
C4_Case ==
    /\ {s.date : s \in sessions} = {Jan(1), Jan(2), Jan(4)}
    /\ today = <<2024, 1, 4>>

C4_AsStated ==
    C4_Case => calculate_current_streak = 2 /\ calculate_max_streak = 2

(* C4 amended: in that case the current streak is 1 (the walk back from     *)
(* 4 January stops at the gap of 3 January) and the max streak is 2.        *)
C4_Amended ==
    C4_Case => calculate_current_streak = 1 /\ calculate_max_streak = 2

C4_Witness == C4_Case /\ calculate_max_streak = 2

(* C5: for every year filter, including none, the sum of the values of      *)
(* get_daily_stats(year) equals get_total_time_read(year).                  *)
C5_DailySumIsTotal ==
    \A year \in YearArgs :
        SeqSum(DictValues(get_daily_stats(year))) = get_total_time_read(year)

\* two sessions of one day, and sessions in two different years
C5_Witness ==
    /\ \E s, t \in sessions : s.id # t.id /\ s.date = t.date /\ s.date = Jan(1)
    /\ get_total_time_read(<<2024>>) > 0
    /\ get_total_time_read(NoYear) > get_total_time_read(<<2024>>)

(* C6: for every integer year passed to a year-filtered statistic, a        *)
(* session contributes to the result if and only if its date lies between   *)
(* 1 January and 31 December of exactly that calendar year.                 *)
C6_YearFilterExact ==
    \A y \in Years :
        LET rows == SessionsInYear(y)
            joined == {s \in rows : BookExists(s.book_id)}
        IN  /\ get_total_time_read(<<y>>) = TotalMinutes(rows)
            /\ DictKeys(get_daily_stats(<<y>>)) = {s.date : s \in rows}
            /\ DictKeys(get_time_by_book(<<y>>)) = {IntToStr(s.book_id) : s \in joined}
            /\ SeqSum(BookTotals(get_time_by_book(<<y>>))) = TotalMinutes(joined)
            /\ get_books_read_in_year(y) = Cardinality({s.book_id : s \in joined})
            /\ (get_most_read_author(<<y>>) # <<>>)
                  = (\E s \in joined : BookGetById(s.book_id).author # NULL)

(* C7: after any sequence of create_book, update_book and mark_as_finished  *)
(* calls, every finished book has an end_date and every book being read    *)
(* has none.                                                                *)
C7_StatusEndDate ==
    \A b \in books :
        /\ b.status = "finished" => b.end_date # NULL
        /\ b.status = "reading" => b.end_date = NULL

\* a stored end_date is never earlier than the start_date of its book
EndNotBeforeStart ==
    \A b \in books :
        b.end_date # NULL => ~DateLess(Strptime(b.end_date), Strptime(b.start_date))

\* a step that does not answer 400 with the books left as they were is no
\* call that asks for an end_date before the start_date of an existing book
EarlierEndRejected ==
    \/ response' = BadRequest /\ books' = books
    \/ \A b \in books :
           LET start_date == Strptime(b.start_date)
           IN  \A e \in {d \in Days : DateLess(d, start_date)} :
                   /\ ~MarkAsFinished(b.id, e)
                   /\ \A t \in NewTitles, st \in StatusWords :
                          ~UpdateBook(b.id, t, NULL, e, st)

(* C8: every book that has an end_date has end_date >= start_date, and a    *)
(* create_book / update_book / mark_as_finished sequence never gets an      *)
(* earlier end_date in: such a call fails with 400 and changes no book.     *)
C8_EndNotBeforeStart == []EndNotBeforeStart /\ [][EarlierEndRejected]_vars

\* a book started before today and finished after its start has just had a
\* request refused with 400
C8_Witness ==
    /\ response = BadRequest
    /\ \E b \in books :
           /\ b.end_date # NULL
           /\ DateLess(Strptime(b.start_date), Strptime(b.end_date))

(* C9: under every interleaving of concurrent create_session and           *)
(* delete_book requests, the book_id of every stored reading session is the *)
(* id of a stored book: no orphaned session is ever created.                *)
C9_NoOrphanedSession == \A s \in sessions : BookExists(s.book_id)

\* sum of the total_minutes of the entries of top_books
TopBooksTotal(top_books) ==
    SeqSum([i \in 1..Len(top_books) |-> top_books[i].total_minutes])

(* C10: the fields of one get_summary_stats or get_wrapped_stats result     *)
(* come from a single snapshot of the stores, also when sessions are        *)
(* created or deleted while the call runs: total_minutes_read is the sum of *)
(* the daily_stats values and the sum of the per-book totals, and           *)
(* longest_session does not exceed total_minutes_read.                      *)
C10_SingleSnapshot ==
    \A t \in Threads :
        calls[t].op = "returned" =>
            LET r == calls[t].result
                total == DictGet(r, "total_minutes_read")
            IN  IF calls[t].handler = "get_summary_stats"
                THEN /\ total = SeqSum(DictValues(DictGet(r, "daily_stats")))
                     /\ total = SeqSum(BookTotals(DictGet(r, "book_stats")))
                ELSE /\ total = TopBooksTotal(DictGet(r, "top_books"))
                     /\ DictGet(r, "longest_session") <= total

\* every stored session has positive minutes and a date that is not after
\* today, hence not after the day of its creation, today never going back
StoredSessionsValid ==
    \A s \in sessions : s.minutes_read > 0 /\ ~StrLess(Strftime(today), s.date)

\* what create_session owes its caller: a stored row and 201 for a valid
\* request; 404 for a missing book, else 400, and the store as it was
CreateSessionContract ==
    \A b \in BookIds, d \in Days, m \in Minutes :
        CreateSession(b, d, m) =>
            IF BookExists(b) /\ m > 0 /\ ~DateLess(today, d)
            THEN /\ response' = Created
                 /\ \E s \in sessions' \ sessions :
                       /\ sessions' = sessions \cup {s}
                       /\ s.book_id = b /\ s.minutes_read = m /\ s.date = Strftime(d)
            ELSE /\ sessions' = sessions
                 /\ response' = IF ~BookExists(b) THEN NotFound ELSE BadRequest

(* C11: create_session stores a session only when the book exists,         *)
(* minutes_read > 0 and the date is not after today; otherwise it fails,    *)
(* with 404 for a missing book (checked first) and 400 for non-positive     *)
(* minutes or a future date, and the session store is unchanged. Every      *)
(* stored session has minutes_read > 0 and a date not after the day of its  *)
(* creation.                                                                *)
C11_CreateSessionValidated == []StoredSessionsValid /\ [][CreateSessionContract]_vars

\* a session is stored and the last request, for a missing book, a future
\* day or no minutes, was refused
C11_Witness ==
    /\ sessions # {}
    /\ response \in {NotFound, BadRequest}
    /\ today # LastDay

\* what delete_book owes its caller
DeleteBookContract ==
    \A b \in BookIds :
        DeleteBook(b) =>
            IF ~BookExists(b)
            THEN response' = NotFound /\ books' = books /\ sessions' = sessions
            ELSE IF \E s \in sessions : s.book_id = b
            THEN response' = BadRequest /\ books' = books /\ sessions' = sessions
            ELSE /\ response' = NoContent
                 /\ books' = {x \in books : x.id # b}
                 /\ sessions' = sessions

\* a book leaves the store only if it had no session
RemovedOnlyWithoutSessions ==
    \A x \in books \ books' : ~\E s \in sessions : s.book_id = x.id

(* C12: delete_book on a book with at least one reading session fails with *)
(* 400 and leaves the book and all its sessions stored; on an unknown id it *)
(* fails with 404; a book is removed only when it exists and has no         *)
(* sessions.                                                                *)
C12_DeleteBookGuarded == [][DeleteBookContract /\ RemovedOnlyWithoutSessions]_vars

\* a book with a session is stored next to where a book without sessions
\* was removed, and a delete_book has just been refused with 400
C12_Witness ==
    /\ response = BadRequest
    /\ \E x \in books : \E s \in sessions : s.book_id = x.id
    /\ Cardinality(books) < seq.books

\* the rows whose date is a valid YYYY-MM-DD date
WellFormedRows == {s \in sessions : WellFormedDate(s.date)}

(* C13: a session record whose date string is no valid YYYY-MM-DD date is  *)
(* skipped: the streak computations return the result computed from the     *)
(* remaining well-formed records instead of raising an error.               *)
C13_MalformedSkipped ==
    \A t \in Threads :
        (calls[t].op = "returned" /\ calls[t].handler = "get_streak_stats") =>
            calls[t].result =
                Return([current_streak |-> CurrentStreakOf(SessionGetAllOf(WellFormedRows)),
                        max_streak |-> MaxStreakOf(SessionGetAllOf(WellFormedRows))])


---------------------------------------------------------------------------
(* C14: with an empty session store every statistic returns its zero       *)
(* value (total 0, both streaks 0, no most read book, no most read         *)
(* author) and the two yearly reports are returned, not raised, for every  *)
(* year and every content of the book store.                               *)

ReportReturned(t) ==
    /\ calls[t].op = "returned"
    /\ calls[t].handler \in {"get_wrapped_stats", "get_wrapped_data"}

C14_EmptyStoreZeroValues ==
    sessions = {} =>
        /\ get_total_time_read(NoYear) = 0
        /\ calculate_current_streak = 0
        /\ calculate_max_streak = 0
        /\ get_most_read_book(NoYear) = <<>>
        /\ get_most_read_author(NoYear) = <<>>
        /\ \A t \in Threads : ReportReturned(t) => calls[t].result.exc = "None"


---------------------------------------------------------------------------
(* C15: determine_reader_personality gives the label of the first rule     *)
(* that matches, in this order: no session in the year -> beginner; more   *)
(* than 100 sessions and an average under 30 minutes -> constant_reader;   *)
(* fewer than 50 sessions and an average over 45 minutes ->                *)
(* intensive_reader; books started in the year > 2 x books finished in the *)
(* year -> explorer; completion rate over 80% -> finisher; otherwise       *)
(* balanced_reader. Every comparison is strict.                            *)

\* the minutes of rows, summed by length of session
RECURSIVE MinutesByLength(_, _)
MinutesByLength(rows, lengths) ==
    IF lengths = {} THEN 0
    ELSE LET m == CHOOSE x \in lengths : TRUE
         IN  m * Cardinality({s \in rows : s.minutes_read = m})
             + MinutesByLength(rows, lengths \ {m})

BooksStartedIn(y) == {b \in books : YearOfDate(b.start_date) = y}

BooksFinishedIn(y) ==
    {b \in books : b.status = "finished" /\ b.end_date # NULL /\ YearOfDate(b.end_date) = y}

\* the label the rules give to n sessions of total minutes in all, with
\* started and finished books
FirstMatchingRule(n, total, started, finished) ==
    IF n = 0 THEN "beginner"
    ELSE IF n > 100 /\ total < 30 * n THEN "constant_reader"
    ELSE IF n < 50 /\ total > 45 * n THEN "intensive_reader"
    ELSE IF started > 2 * finished THEN "explorer"
    ELSE IF started > 0 /\ 100 * finished > 80 * started THEN "finisher"
    ELSE "balanced_reader"

PersonalityReturned(t) ==
    /\ calls[t].op = "returned"
    /\ calls[t].handler = "get_reader_personality"

C15_PersonalityRules ==
    \A t \in Threads : PersonalityReturned(t) =>
        /\ calls[t].result.exc = "None"
        /\ LET y == calls[t].year
               rows == SessionsInYear(y)
           IN  calls[t].result.value[1].personality.type =
                   FirstMatchingRule(Cardinality(rows),
                                     MinutesByLength(rows, {s.minutes_read : s \in rows}),
                                     Cardinality(BooksStartedIn(y)),
                                     Cardinality(BooksFinishedIn(y)))

\* exactly 100 sessions of 29 minutes, five books started and four of them
\* finished in the year: neither constant_reader nor finisher
C15_Witness ==
    /\ PersonalityReturned("t1")
    /\ calls["t1"].year = 2024
    /\ Cardinality(sessions) = 100
    /\ \A s \in sessions : s.minutes_read = 29
    /\ Cardinality(BooksStartedIn(2024)) = 5
    /\ Cardinality(BooksFinishedIn(2024)) = 4
    /\ calls["t1"].result.value[1].personality.type = "balanced_reader"


---------------------------------------------------------------------------
(* C16: in both author aggregations (get_most_read_author of the stats     *)
(* service, calculate_authors_stats of the wrapped service) a session      *)
(* whose book has no author (None, empty or blank) adds to no author's     *)
(* total and makes no bucket; when every session's book is without author  *)
(* the most read author is None.                                           *)

HasAuthor(b) == b.author # NULL /\ ~IsBlank(b.author)

\* the sessions of year y whose book has an author, and these authors
AuthoredSessions(y) ==
    {s \in SessionsInYear(y) : \E b \in books : b.id = s.book_id /\ HasAuthor(b)}

AuthorsRead(y) ==
    {b.author : b \in {x \in books : \E s \in AuthoredSessions(y) : s.book_id = x.id}}

MinutesOfAuthor(y, author) ==
    LET rows == {s \in AuthoredSessions(y) :
                    \E b \in books : b.id = s.book_id /\ b.author = author}
    IN  MinutesByLength(rows, {s.minutes_read : s \in rows})

\* the buckets of a returned authors_stats are those of the authors read
AuthorBucketsRight(y, authors_stats) ==
    /\ authors_stats.unique_authors = Cardinality(AuthorsRead(y))
    /\ (AuthorsRead(y) = {}) = (authors_stats.most_read_author = <<>>)
    /\ \A i \in 1..Len(authors_stats.top_3_authors) :
           LET bucket == authors_stats.top_3_authors[i]
           IN  /\ DictGet(bucket, "name") \in AuthorsRead(y)
               /\ DictGet(bucket, "minutes") = MinutesOfAuthor(y, DictGet(bucket, "name"))

C16_AuthorlessExcluded ==
    \A t \in Threads : (ReportReturned(t) /\ calls[t].result.exc = "None") =>
        LET y == calls[t].year
            report == calls[t].result.value[1]
        IN  IF calls[t].handler = "get_wrapped_stats"
            THEN /\ (AuthorsRead(y) = {}) = (DictGet(report, "most_read_author") = <<>>)
                 /\ \A i \in 1..Len(DictGet(report, "most_read_author")) :
                        DictGet(report, "most_read_author")[i] \in AuthorsRead(y)
            ELSE AuthorBucketsRight(y, DictGet(report, "authors_stats"))


---------------------------------------------------------------------------
(* C17: while no session is created or deleted and D is the most recent    *)
(* session date, the current streak has one and the same positive value on *)
(* day D and on day D+1, and is 0 on every day from D+2 on.                *)

\* the position in the window of the most recent session date
LastReadDay == SetMax(ReadDays(sessions))

\* the value on day D and on day D+1 is the run of read days that ends at
\* D, which the passing of a day does not change
C17_StreakSurvivesOneDay ==
    sessions # {} =>
        /\ TodayIndex \in {LastReadDay, LastReadDay + 1}
               => /\ calculate_current_streak = RunEndingAt(ReadDays(sessions), LastReadDay)
                  /\ calculate_current_streak > 0
        /\ TodayIndex >= LastReadDay + 2 => calculate_current_streak = 0

\* two days after the last of two consecutive read days
C17_Witness ==
    /\ sessions # {}
    /\ RunEndingAt(ReadDays(sessions), LastReadDay) = 2
    /\ TodayIndex = LastReadDay + 2
    /\ calculate_current_streak = 0


---------------------------------------------------------------------------
(* C18: a session created on a date that already has a session leaves the  *)
(* current streak, the max streak and the number of entries of             *)
(* get_daily_stats as they were, and adds exactly its minutes to           *)
(* get_total_time_read and to the daily total of its date.                 *)

\* the statistics over the rows of reading_sessions, with no year given
TotalTimeOf(rows) == SeqSum(MinutesOf(SessionGetAllOf(rows)))

DailyStatsOf(rows) == DailyTotals(SessionGetAllOf(rows), <<>>)

SecondSessionOfADay ==
    \A new \in sessions' \ sessions :
        (sessions' = sessions \cup {new} /\ \E s \in sessions : s.date = new.date) =>
            /\ CurrentStreakOf(SessionGetAllOf(sessions')) = calculate_current_streak
            /\ MaxStreakOf(SessionGetAllOf(sessions')) = calculate_max_streak
            /\ Len(DailyStatsOf(sessions')) = Len(get_daily_stats(NoYear))
            /\ TotalTimeOf(sessions') = get_total_time_read(NoYear) + new.minutes_read
            /\ DictGet(DailyStatsOf(sessions'), new.date) =
                   DictGet(get_daily_stats(NoYear), new.date) + new.minutes_read

C18_SameDateSessionAdds == [][SecondSessionOfADay]_vars

\* two sessions of 10 and 25 minutes on one date: one entry of 35 minutes
C18_Witness ==
    /\ Cardinality(sessions) = 2
    /\ \A s \in sessions : s.date = Strftime(DayAt(2))
    /\ {s.minutes_read : s \in sessions} = {10, 25}
    /\ Len(get_daily_stats(NoYear)) = 1
    /\ get_total_time_read(NoYear) = 35
    /\ today = DayAt(2)


---------------------------------------------------------------------------
(* C19: for every year asked for, the field current_streak of              *)
(* get_wrapped_stats(year) is calculate_current_streak() over all the      *)
(* sessions, whatever their year, counted from today.                      *)

WrappedStatsReturned(t) ==
    /\ calls[t].op = "returned"
    /\ calls[t].handler = "get_wrapped_stats"

C19_StreakNotYearScoped ==
    \A t \in Threads : WrappedStatsReturned(t) =>
        /\ calls[t].result.exc = "None"
        /\ LET S == ReadDays(sessions)
               current_streak == DictGet(calls[t].result.value[1], "current_streak")
           IN  /\ current_streak = calculate_current_streak
               /\ current_streak =
                      IF S = {} THEN 0
                      ELSE IF TodayIndex - SetMax(S) > 1 THEN 0
                      ELSE RunEndingAt(S, SetMax(S))

\* the report of 2025, a year without sessions, on the day after a session
C19_Witness ==
    /\ WrappedStatsReturned("t1")
    /\ calls["t1"].year = 2025
    /\ SessionsInYear(2025) = {}
    /\ DictGet(calls["t1"].result.value[1], "total_minutes_read") = 0
    /\ DictGet(calls["t1"].result.value[1], "current_streak") = 1


---------------------------------------------------------------------------
(* C20: no statistic divides by zero, whatever the store holds: a report   *)
(* never ends in ZeroDivisionError; average_minutes_per_day of             *)
(* get_wrapped_stats and average_minutes_per_active_day of                 *)
(* calculate_general_stats are 0 for a year without a reading day; and     *)
(* completion_rate is 0 for a year in which no book was started, also when *)
(* books were finished in it: calculate_reading_status reports 0, and      *)
(* determine_reader_personality does not find a finisher.                  *)

ReportOf(t) == calls[t].result.value[1]

C20_NoDivisionByZero ==
    \A t \in Threads : ReportReturned(t) =>
        /\ calls[t].result.exc # "ZeroDivisionError"
        /\ (calls[t].result.exc = "None" /\ calls[t].handler = "get_wrapped_stats"
                /\ SessionsInYear(calls[t].year) = {})
               => DictGet(ReportOf(t), "average_minutes_per_day") = 0
        /\ (calls[t].result.exc = "None" /\ calls[t].handler = "get_wrapped_data"
                /\ SessionsInYear(calls[t].year) = {})
               => DictGet(DictGet(ReportOf(t), "general_stats"),
                          "average_minutes_per_active_day") = 0
        /\ (calls[t].result.exc = "None" /\ calls[t].handler = "get_wrapped_data"
                /\ BooksStartedIn(calls[t].year) = {})
               => /\ DictGet(ReportOf(t), "reading_status").completion_rate = 0
                  /\ DictGet(ReportOf(t), "reading_status").books_finished
                         = Cardinality(BooksFinishedIn(calls[t].year))
                  /\ DictGet(ReportOf(t), "reader_personality").type # "finisher"

\* the report of 2024 over sessions of 2024 and books that were all started
\* in 2023, one of them finished in 2024
C20_Witness ==
    /\ ReportReturned("t1")
    /\ calls["t1"].handler = "get_wrapped_data"
    /\ calls["t1"].year = 2024
    /\ calls["t1"].result.exc = "None"
    /\ sessions # {}
    /\ BooksStartedIn(2024) = {}
    /\ DictGet(ReportOf("t1"), "reading_status").books_finished > 0
    /\ DictGet(ReportOf("t1"), "reading_status").books_started = 0
    /\ DictGet(ReportOf("t1"), "reading_status").completion_rate = 0


---------------------------------------------------------------------------
(* C21: GET /stats/books-finished and the field books_finished of          *)
(* GET /stats/basic succeed; with a year the count is the number of        *)
(* finished books whose end_date falls in that year, and without a year    *)
(* the number of all finished books.                                       *)

FinishedCountExpected(year) ==
    IF year = NoYear THEN Cardinality({b \in books : b.status = "finished"})
    ELSE Cardinality(BooksFinishedIn(year[1]))

C21_BooksFinishedOfYear ==
    \A t \in Threads :
        (calls[t].op = "returned"
            /\ calls[t].handler \in {"get_books_finished", "get_basic_stats"})
        => /\ response = Ok
           /\ calls[t].result.exc = "None"
           /\ DictGet(calls[t].result.value[1], "books_finished")
                  = FinishedCountExpected(calls[t].year)


---------------------------------------------------------------------------
(* C22: for every year, a year without sessions included, the entries      *)
(* fastest and slowest of calculate_protagonist_book are finished books    *)
(* with the smallest and the largest number of days from start_date to     *)
(* end_date among all the finished books of the store, so that             *)
(* fastest.days <= slowest.days whenever a finished book exists.           *)

FinishedWithDates == {b \in books : b.status = "finished" /\ b.end_date # NULL}

ElapsedDays(b) == ToOrdinal(Strptime(b.end_date)) - ToOrdinal(Strptime(b.start_date))

ProtagonistReturned(t) ==
    /\ calls[t].op = "returned"
    /\ calls[t].handler = "get_wrapped_data"
    /\ calls[t].result.exc = "None"

ExtremesRight(protagonist_book) ==
    /\ DictHas(protagonist_book, "fastest")
    /\ DictHas(protagonist_book, "slowest")
    /\ DictGet(protagonist_book, "fastest") # <<>>
    /\ DictGet(protagonist_book, "slowest") # <<>>
    /\ LET fastest == DictGet(protagonist_book, "fastest")[1]
           slowest == DictGet(protagonist_book, "slowest")[1]
       IN  /\ \E b \in FinishedWithDates :
                  /\ b.title = DictGet(fastest, "title")
                  /\ ElapsedDays(b) = DictGet(fastest, "days")
           /\ \E b \in FinishedWithDates :
                  /\ b.title = DictGet(slowest, "title")
                  /\ ElapsedDays(b) = DictGet(slowest, "days")
           /\ \A b \in FinishedWithDates :
                  /\ DictGet(fastest, "days") <= ElapsedDays(b)
                  /\ ElapsedDays(b) <= DictGet(slowest, "days")
           /\ DictGet(fastest, "days") <= DictGet(slowest, "days")

C22_FastestSlowestOfAllFinished ==
    \A t \in Threads :
        (ProtagonistReturned(t) /\ FinishedWithDates # {})
        => ExtremesRight(DictGet(calls[t].result.value[1], "protagonist_book"))

\* the same for the years that have a session
C22_WithSessionsInYear ==
    \A t \in Threads :
        (ProtagonistReturned(t) /\ FinishedWithDates # {}
            /\ SessionsInYear(calls[t].year) # {})
        => ExtremesRight(DictGet(calls[t].result.value[1], "protagonist_book"))


---------------------------------------------------------------------------
(* C23: get_most_read_book and get_most_read_author return the key with    *)
(* the most minutes in the grouping of the sessions that pass the year      *)
(* filter; among several keys with that maximum, the one whose first        *)
(* session comes first in the iteration order of the sessions; and None     *)
(* when the grouping is empty.                                             *)

\* positions, in the order q of get_all_sessions_with_books, of the rows
\* that pass the filter
FilteredRows(q, year) == {i \in 1..Len(q) : InYearFilter(q[i].date, year)}

RowsOfBook(q, year, id) == {i \in FilteredRows(q, year) : q[i].book_id = id}

RowsOfAuthor(q, year, a) == {i \in FilteredRows(q, year) : q[i].author = a}

MinutesOfRows(q, I) == TotalMinutes({q[i] : i \in I})

FirstRow(I) == CHOOSE i \in I : \A j \in I : i <= j

BooksGrouped(q, year) == {q[i].book_id : i \in FilteredRows(q, year)}

AuthorsGrouped(q, year) ==
    {q[i].author : i \in {j \in FilteredRows(q, year) :
                             q[j].author # NULL /\ ~IsBlank(q[j].author)}}

\* the keys of a grouping with their minutes and their first row; the
\* first of those with the most minutes
FirstOfMaximum(keys, minutes, first) ==
    CHOOSE k \in keys : \A other \in keys :
        \/ minutes[other] < minutes[k]
        \/ minutes[other] = minutes[k] /\ first[k] <= first[other]

MostReadBookOf(q, year) ==
    LET keys == BooksGrouped(q, year)
    IN  FirstOfMaximum(keys,
                       [k \in keys |-> MinutesOfRows(q, RowsOfBook(q, year, k))],
                       [k \in keys |-> FirstRow(RowsOfBook(q, year, k))])

MostReadAuthorOf(q, year) ==
    LET keys == AuthorsGrouped(q, year)
    IN  FirstOfMaximum(keys,
                       [k \in keys |-> MinutesOfRows(q, RowsOfAuthor(q, year, k))],
                       [k \in keys |-> FirstRow(RowsOfAuthor(q, year, k))])

MostReadReturned(t, handler) ==
    /\ calls[t].op = "returned"
    /\ calls[t].handler = handler

C23_MostReadFirstOfMaximum ==
    \A t \in Threads : \A q \in {SessionsWithBooks} :
        /\ MostReadReturned(t, "get_most_read_book") =>
               LET most_read == calls[t].result.value[1]
               IN  IF BooksGrouped(q, calls[t].year) = {} THEN most_read = <<>>
                   ELSE /\ most_read # <<>>
                        /\ most_read[1].book_id = MostReadBookOf(q, calls[t].year)
                        /\ most_read[1].total_minutes =
                               MinutesOfRows(q, RowsOfBook(q, calls[t].year,
                                                           most_read[1].book_id))
        /\ MostReadReturned(t, "get_most_read_author") =>
               LET author == DictGet(calls[t].result.value[1], "author")
               IN  IF AuthorsGrouped(q, calls[t].year) = {} THEN author = <<>>
                   ELSE author = <<MostReadAuthorOf(q, calls[t].year)>>

\* two books share the most minutes of 2024 and the one returned is not the
\* one with the lower id
C23_Witness ==
    /\ MostReadReturned("t1", "get_most_read_book")
    /\ calls["t1"].year = <<2024>>
    /\ calls["t1"].result.value[1] # <<>>
    /\ \E other \in {s.book_id : s \in SessionsInYear(2024)} :
           /\ other < calls["t1"].result.value[1][1].book_id
           /\ TotalMinutes({s \in SessionsInYear(2024) : s.book_id = other})
                  = calls["t1"].result.value[1][1].total_minutes


---------------------------------------------------------------------------
(* C24: top_books of get_wrapped_stats(year) has min(5, number of books    *)
(* with a session in the year) entries, in descending order of total       *)
(* minutes, books of equal totals in the iteration order of the grouping,  *)
(* and no book left out has more minutes than a book listed.               *)

BooksReadIn(y) == {s.book_id : s \in SessionsInYear(y)}

MinutesOfBookIn(y, id) == TotalMinutes({s \in SessionsInYear(y) : s.book_id = id})

Min2(a, b) == IF a < b THEN a ELSE b

TopBooksRight(q, y, top_books) ==
    /\ Len(top_books) = Min2(5, Cardinality(BooksReadIn(y)))
    /\ \A i \in 1..Len(top_books) :
           /\ top_books[i].book_id \in BooksReadIn(y)
           /\ top_books[i].total_minutes = MinutesOfBookIn(y, top_books[i].book_id)
    /\ \A i, j \in 1..Len(top_books) : i < j =>
           \/ top_books[i].total_minutes > top_books[j].total_minutes
           \/ /\ top_books[i].total_minutes = top_books[j].total_minutes
              /\ FirstRow(RowsOfBook(q, <<y>>, top_books[i].book_id))
                     < FirstRow(RowsOfBook(q, <<y>>, top_books[j].book_id))
    /\ \A id \in BooksReadIn(y) \ {top_books[i].book_id : i \in 1..Len(top_books)} :
       \A i \in 1..Len(top_books) :
           MinutesOfBookIn(y, id) <= top_books[i].total_minutes

C24_TopBooks ==
    \A t \in Threads : WrappedStatsReturned(t) =>
        /\ calls[t].result.exc = "None"
        /\ \A q \in {SessionsWithBooks} :
               TopBooksRight(q, calls[t].year, DictGet(calls[t].result.value[1], "top_books"))

\* six books were read in 2024: five are listed, two of equal totals with
\* the higher id first, and the book left out has as many minutes as the
\* last one listed
C24_Witness ==
    /\ WrappedStatsReturned("t1")
    /\ calls["t1"].year = 2024
    /\ Cardinality(BooksReadIn(2024)) = 6
    /\ LET top_books == DictGet(calls["t1"].result.value[1], "top_books")
       IN  /\ Len(top_books) = 5
           /\ \E i \in 1..4 :
                  /\ top_books[i].total_minutes = top_books[i + 1].total_minutes
                  /\ top_books[i].book_id > top_books[i + 1].book_id
           /\ \E id \in BooksReadIn(2024) :
                  /\ \A i \in 1..5 : top_books[i].book_id # id
                  /\ MinutesOfBookIn(2024, id) = top_books[5].total_minutes


---------------------------------------------------------------------------
(* C25: favorite_day of calculate_reading_habits is the weekday with the   *)
(* most sessions in the year; among several weekdays with that highest     *)
(* count it is the one that comes first in the order Monday to Sunday.     *)

\* 0 for Monday .. 6 for Sunday; 1 January 2024 is a Monday
WeekdayOfDate(date) == (ToOrdinal(Strptime(date)) - ToOrdinal(<<2024, 1, 1>>)) % 7

SessionsOnWeekday(y, w) == {s \in SessionsInYear(y) : WeekdayOfDate(s.date) = w}

BusiestWeekdays(y) ==
    {w \in 0..6 : /\ SessionsOnWeekday(y, w) # {}
                  /\ \A v \in 0..6 : Cardinality(SessionsOnWeekday(y, v))
                                         <= Cardinality(SessionsOnWeekday(y, w))}

SetMin(S) == CHOOSE x \in S : \A y \in S : x <= y

HabitsReturned(t) ==
    /\ calls[t].op = "returned"
    /\ calls[t].handler = "get_reading_habits"
    /\ calls[t].result.exc = "None"
    /\ SessionsInYear(calls[t].year) # {}

FavoriteDay(t) == DictGet(calls[t].result.value[1].habits, "favorite_day")

C25_FavoriteDayMondayFirst ==
    \A t \in Threads : HabitsReturned(t) =>
        FavoriteDay(t) = day_names[1 + SetMin(BusiestWeekdays(calls[t].year))]

\* what holds instead: it is the busiest weekday whose first session is the
\* earliest in the year
C25_FavoriteDayFirstRead ==
    \A t \in Threads : HabitsReturned(t) =>
        \E w \in BusiestWeekdays(calls[t].year) :
            /\ FavoriteDay(t) = day_names[1 + w]
            /\ \A v \in BusiestWeekdays(calls[t].year) :
               \E s \in SessionsOnWeekday(calls[t].year, w) :
               \A r \in SessionsOnWeekday(calls[t].year, v) : ~StrLess(r.date, s.date)


---------------------------------------------------------------------------
(* C26: calculate_reading_habits counts every session of the year in       *)
(* exactly one class: short under 20 minutes, medium from 20 to 45         *)
(* minutes, long over 45 minutes; short + medium + long is the number of   *)
(* sessions of the year.                                                   *)

Classification(t) == DictGet(calls[t].result.value[1].habits, "session_classification")

C26_SessionClasses ==
    \A t \in Threads : HabitsReturned(t) =>
        LET in_year == SessionsInYear(calls[t].year)
            short == DictGet(Classification(t), "short")
            medium == DictGet(Classification(t), "medium")
            long == DictGet(Classification(t), "long")
        IN  /\ short = Cardinality({s \in in_year : s.minutes_read < 20})
            /\ medium = Cardinality({s \in in_year : s.minutes_read >= 20
                                                       /\ s.minutes_read <= 45})
            /\ long = Cardinality({s \in in_year : s.minutes_read > 45})
            /\ short + medium + long = Cardinality(in_year)

\* sessions of 20, 45 and 46 minutes: two medium ones and a long one
C26_Witness ==
    /\ HabitsReturned("t1")
    /\ calls["t1"].year = 2024
    /\ {s.minutes_read : s \in sessions} = {20, 45, 46}
    /\ DictGet(Classification("t1"), "short") = 0
    /\ DictGet(Classification("t1"), "medium") = 2
    /\ DictGet(Classification("t1"), "long") = 1


---------------------------------------------------------------------------
(* C27: along every sequence of operations, calculate_max_streak does not  *)
(* decrease in a step of create_session and does not increase in a step of *)
(* delete_session.                                                         *)

MaxStreakSteps ==
    /\ (sessions' # sessions /\ sessions \subseteq sessions')
           => MaxStreakOf(SessionGetAllOf(sessions')) >= MaxStreakOf(SessionGetAllOf(sessions))
    /\ (sessions' # sessions /\ sessions' \subseteq sessions)
           => MaxStreakOf(SessionGetAllOf(sessions')) <= MaxStreakOf(SessionGetAllOf(sessions))

C27_MaxStreakMonotone == [][MaxStreakSteps]_vars

\* three sessions were created and one of them was deleted; the two that
\* are left lie two days apart and the max streak is 1
C27_Witness ==
    /\ response = NoContent
    /\ seq.sessions = 3
    /\ Cardinality(sessions) = 2
    /\ \E i \in 1..(NumDays - 2) : ReadDays(sessions) = {i, i + 2}
    /\ calculate_max_streak = 1


---------------------------------------------------------------------------
(* C28: for every year filter, none included, when every stored session    *)
(* references a stored book, the total_minutes of the entries of            *)
(* get_time_by_book(year) add up to get_total_time_read(year), and with a   *)
(* year the number of entries is get_books_read_in_year(year).              *)

EverySessionHasBook == \A s \in sessions : \E b \in books : b.id = s.book_id

BookStatsReturned(t) ==
    /\ calls[t].op = "returned"
    /\ calls[t].handler = "get_book_stats"

EntryMinutes(book_stats) == [i \in 1..Len(book_stats) |-> book_stats[i].total_minutes]

C28_BookTotalsAddUp ==
    \A t \in Threads : (BookStatsReturned(t) /\ EverySessionHasBook) =>
        /\ SeqSum(EntryMinutes(calls[t].result.value[1]))
               = get_total_time_read(calls[t].year)
        /\ calls[t].year # NoYear =>
               Len(calls[t].result.value[1]) = get_books_read_in_year(calls[t].year[1])

\* the books of 2024, several of them, in a store that also has a session
\* of 2023
C28_Witness ==
    /\ BookStatsReturned("t1")
    /\ EverySessionHasBook
    /\ calls["t1"].year = <<2024>>
    /\ Len(calls["t1"].result.value[1]) >= 2
    /\ SessionsInYear(2023) # {}
    /\ SeqSum(EntryMinutes(calls["t1"].result.value[1])) = TotalMinutes(SessionsInYear(2024))


---------------------------------------------------------------------------
(* C29: in a result of get_wrapped_stats(year) computed while nothing is   *)
(* written, most_read_book is None exactly when top_books is empty, and    *)
(* otherwise it is the book of the first entry of top_books, with the same *)
(* total minutes.                                                          *)

C29_MostReadIsFirstOfTop ==
    \A t \in Threads : WrappedStatsReturned(t) =>
        /\ calls[t].result.exc = "None"
        /\ LET most_read_book == DictGet(calls[t].result.value[1], "most_read_book")
               top_books == DictGet(calls[t].result.value[1], "top_books")
           IN  /\ (most_read_book = <<>>) <=> (Len(top_books) = 0)
               /\ most_read_book # <<>> =>
                      /\ most_read_book[1].book_id = top_books[1].book_id
                      /\ most_read_book[1].title = top_books[1].title
                      /\ most_read_book[1].total_minutes = top_books[1].total_minutes

\* the first two entries of top_books have the same total
C29_Witness ==
    /\ WrappedStatsReturned("t1")
    /\ calls["t1"].year = 2024
    /\ LET most_read_book == DictGet(calls["t1"].result.value[1], "most_read_book")
           top_books == DictGet(calls["t1"].result.value[1], "top_books")
       IN  /\ Len(top_books) >= 2
           /\ top_books[1].total_minutes = top_books[2].total_minutes
           /\ most_read_book # <<>>
           /\ most_read_book[1].book_id = top_books[1].book_id
           /\ most_read_book[1].book_id # top_books[2].book_id


---------------------------------------------------------------------------
(* C30: for every four-digit year and every store whose dates are          *)
(* well-formed YYYY-MM-DD strings, get_wrapped_stats(year) and             *)
(* get_wrapped_data(year) agree on the total minutes of the year           *)
(* (total_minutes_read = general_stats.total_minutes), on the number of    *)
(* days read (days_read = total_days_with_reading) and on the books        *)
(* finished in the year (books_finished_in_year =                          *)
(* reading_status.books_finished).                                         *)

WellFormedStore ==
    /\ \A s \in sessions : WellFormedDate(s.date)
    /\ \A b \in books : /\ WellFormedDate(b.start_date)
                        /\ b.end_date # NULL => WellFormedDate(b.end_date)

FourDigits(y) == 1000 <= y /\ y <= 9999

ReportsAgree(wrapped_stats, wrapped_data) ==
    /\ wrapped_data.exc = "None"
    /\ DictGet(wrapped_stats, "total_minutes_read")
           = DictGet(DictGet(wrapped_data.value[1], "general_stats"), "total_minutes")
    /\ DictGet(wrapped_stats, "days_read")
           = DictGet(DictGet(wrapped_data.value[1], "general_stats"),
                     "total_days_with_reading")
    /\ DictGet(wrapped_stats, "books_finished_in_year")
           = DictGet(wrapped_data.value[1], "reading_status").books_finished

C30_ReportsAgree ==
    \A t \in Threads :
        (WrappedStatsReturned(t) /\ FourDigits(calls[t].year) /\ WellFormedStore) =>
            /\ calls[t].result.exc = "None"
            /\ \A wrapped_data \in {get_wrapped_data(calls[t].year)} :
                   ReportsAgree(calls[t].result.value[1], wrapped_data)

\* the reports of 2024 over sessions of 31 December 2023 and of two days of
\* 2024, and a book finished in each year
C30_Witness ==
    /\ WrappedStatsReturned("t1")
    /\ calls["t1"].year = 2024
    /\ SessionsInYear(2023) # {}
    /\ BooksFinishedIn(2023) # {}
    /\ DictGet(calls["t1"].result.value[1], "days_read") = 2
    /\ DictGet(calls["t1"].result.value[1], "books_finished_in_year") >= 1
    /\ DictGet(calls["t1"].result.value[1], "total_minutes_read")
           = TotalMinutes(SessionsInYear(2024))

====
